---- MODULE Spec2Model ----
(***************************************************************************)
(* A model of feedflow's in-memory task registry (src/task-queue.js) and  *)
(* of the workflow pipeline that runs on top of it                         *)
(* (src/workflow/WorkflowManager.js).                                      *)
(*                                                                         *)
(* Spec       : the TaskQueue driven by arbitrary callers and by an        *)
(*              arbitrary executor (progress calls, then resolve/reject).  *)
(* WFSpec     : one run of executeFullWorkflow, its collaborators settling *)
(*              one await at a time, with cancelTask arriving at any time. *)
(* FairWFSpec : WFSpec where every awaited collaborator eventually settles.*)
(* PipeSpec, HttpSpec : the three task-backed pipelines, from the command  *)
(*              line or from the HTTP layer.                               *)
(* ApiSpec    : one call of one of the five workflow functions.            *)
(* FetchSpec, RankSpec, IncSpec, MainSpec, EsSpec, RpSpec : fetchRSSFeeds, *)
(*              the topic ranking, executeIncrementalWorkflow, index.js    *)
(*              main(), executeStrategy by article, and saveReport.        *)
(***************************************************************************)
EXTENDS Integers, Sequences, FiniteSets, TLC

\* ---------------------------------------------------------------- bounds
MaxCalls == 6          \* Spec: a behaviour makes at most this many calls (clock ticks included)
MaxArticles == 2       \* WFSpec: fetchRSSFeeds returns at most this many articles
MaxBlogs == 2          \* WFSpec: blogCount is at most this
MaxGuids == 2          \* MainSpec: the feeds carry at most this many different articles
MaxRuns == 2           \* MainSpec: main() is run at most this many times
MaxStored == 2         \* EsSpec: the repository holds at most this many articles
MaxCount == 2          \* EsSpec: executeStrategy is asked for at most this many blogs
MaxPipelines == 2      \* RpSpec: at most this many pipeline runs save a report
MaxClock == 2          \* RpSpec: Date.now() advances at most this many milliseconds
MaxFeeds == 3          \* FetchSpec: fetchRSSFeeds is given at most this many feeds
MaxTopicList == 3      \* RankSpec: an analysis holds at most this many topics

\* ------------------------------------------------------ program constants
PENDING     == "pending"
IN_PROGRESS == "in_progress"
COMPLETED   == "completed"
FAILED      == "failed"
CANCELLED   == "cancelled"
TaskStatus  == {PENDING, IN_PROGRESS, COMPLETED, FAILED, CANCELLED}
Terminal    == {COMPLETED, FAILED, CANCELLED}

\* JS null for string-valued fields (result, error) and for Date fields
NULL     == "null"
NullTime == -1

\* ------------------------------------------------------------ input sets
TaskIds      == 1 .. (MaxCalls + 1)     \* task_1, task_2, ...
TaskTypes    == {"fullWorkflow"}
ProgressArgs == {-5, 40, 120}           \* below, inside and above 0..100
StepArgs     == {"", "s1", "s2"}       \* "" is a falsy step argument
MessageArgs  == {"m1", "m2"}
ResultVals   == {"v1", "v2"}
ErrorVals    == {"e1", "e2"}
MaxAgeArgs   == {0, 1}

VARIABLES
  calls,       \* how many calls and clock ticks the behaviour has made
  tasks,       \* this.tasks : a map from task id to task record
  nextTaskId,  \* this.nextTaskId
  now,         \* the wall clock read by new Date() / Date.now()
  exec,        \* per created id: where the executor handed to startTask stands
  promise,     \* per created id: the promise returned by the accepted startTask
  invoked,     \* per created id: how many times an executor was invoked for it
  ret,         \* outcome of the most recent registry call
  events,      \* events emitted by the most recent step, in order
  emitCount,   \* per created id and lifecycle event: how often it was emitted
  issued,      \* ids returned by createTask so far
  pc,          \* executeFullWorkflow: the await its executor is suspended at
  wf,          \* executeFullWorkflow: arguments and local variables of the run
  store,       \* ArticleRepository: the number of stored, unprocessed articles
  reports,     \* data/reports: the report files written so far
  fx,          \* fetchRSSFeeds: the call in progress, its batches and its result
  rk,          \* the topic ranking of generateBlog: its input and its output
  inc,         \* executeIncrementalWorkflow: the call under way and its outcome
  main,        \* index.js main(): data/processed.json and the runs made so far
  cw,          \* executeCleanupWorkflow: the call under way and its outcome
  es,          \* executeStrategy: the articles of the repository and of each blog
  rp           \* saveReport: the clock, the calls under way and data/reports by name

vars == <<calls, tasks, nextTaskId, now, exec, promise, invoked, ret, events, emitCount,
          issued, pc, wf, store, reports, fx, rk, inc, main, cw, es, rp>>
wfvars == <<pc, wf, store, reports, fx, rk, inc, main, cw, es, rp>>
regvars == <<calls, tasks, nextTaskId, now, exec, promise, invoked, ret, events, emitCount,
             issued>>

LifecycleEvents == {"taskCreated", "taskStarted", "taskCompleted", "taskFailed", "taskCancelled"}

Max(a, b) == IF a >= b THEN a ELSE b
Min(a, b) == IF a <= b THEN a ELSE b

\* ------------------------------------------------------------- helpers
Ev(kind, id) == [kind |-> kind, id |-> id]

NoCounts == [k \in LifecycleEvents |-> 0]

RECURSIVE Counted(_, _)
Counted(cnt, evs) ==
  IF evs = <<>> THEN cnt
  ELSE LET e == Head(evs)
           c == IF e.id \in DOMAIN cnt THEN cnt[e.id] ELSE NoCounts
       IN Counted(
            IF e.kind \in LifecycleEvents
            THEN [i \in (DOMAIN cnt) \cup {e.id} |->
                    IF i = e.id THEN [c EXCEPT ![e.kind] = @ + 1] ELSE cnt[i]]
            ELSE cnt,
            Tail(evs))

\* one call: this.emit(...) for each event of evs, in order
Emit(evs) ==
  /\ events' = evs
  /\ emitCount' = Counted(emitCount, evs)

\* the state of a promise: none, pending, or settled with a value
Settled(state, value) == [state |-> state, value |-> value]

Ret(op, id, err, val) == [op |-> op, id |-> id, err |-> err, val |-> val]

\* map.set(k, v)
With(map, k, v) == [i \in (DOMAIN map) \cup {k} |-> IF i = k THEN v ELSE map[i]]

NewTask(id, type) ==
  [id |-> id, type |-> type, status |-> PENDING, progress |-> 0,
   startTime |-> NullTime, endTime |-> NullTime, duration |-> NullTime,
   result |-> NULL, error |-> NULL, steps |-> <<>>]

Has(id) == id \in DOMAIN tasks

\* (mutant) a clamp without its lower bound
Clamp_NoFloor(p) == Min(100, p)

\* Math.max(0, Math.min(100, progress))
Clamp(p) == Max(0, Min(100, p))

\* task.steps.findIndex(s => s.step === step); 0 stands for -1
FindIndex(steps, step) ==
  IF \E i \in 1 .. Len(steps) : steps[i].step = step
  THEN CHOOSE i \in 1 .. Len(steps) :
         /\ steps[i].step = step
         /\ \A j \in 1 .. (i - 1) : steps[j].step # step
  ELSE 0

\* (mutant) a step list that is only ever appended to
UpsertStep_AlwaysAppends(steps, step, message, ts) ==
  Append(steps, [step |-> step, message |-> message, timestamp |-> ts])

UpsertStep(steps, step, message, ts) ==
  LET i == FindIndex(steps, step) IN
  IF i > 0
  THEN [steps EXCEPT ![i].message = message, ![i].timestamp = ts]
  ELSE Append(steps, [step |-> step, message |-> message, timestamp |-> ts])

\* (mutant) updateProgress without the status check
ProgressAllowedIn_AnyStatus(ts, id) == id \in DOMAIN ts

\* the guard of updateProgress, on a task map ts
ProgressAllowedIn(ts, id) == id \in DOMAIN ts /\ ts[id].status = IN_PROGRESS

ProgressAllowed(id) == ProgressAllowedIn(tasks, id)

\* (mutant) cancelTask that also cancels a task not yet started
CancelAllowed_AlsoPending(id) == Has(id) /\ tasks[id].status \in {PENDING, IN_PROGRESS}

\* the guard of cancelTask
CancelAllowed(id) == Has(id) /\ tasks[id].status = IN_PROGRESS

\* the body of updateProgress, as a change of the task map
ProgressedTask(t, p, step, message) ==
  [t EXCEPT !.progress = Clamp(p),
            !.steps = IF step # "" THEN UpsertStep(t.steps, step, message, now) ELSE @]

\* updateProgress(id, p, step, message) as a function of the task map
UpdateProgressIn(ts, id, p, step, message) ==
  IF ProgressAllowedIn(ts, id)
  THEN [ts EXCEPT ![id] = ProgressedTask(@, p, step, message)]
  ELSE ts

\* the events that call emits
ProgressEvents(ts, id) ==
  IF ProgressAllowedIn(ts, id) THEN <<Ev("taskProgress", id)>> ELSE <<>>

\* startTask's transition of a PENDING task
StartedTask(t) == [t EXCEPT !.status = IN_PROGRESS, !.startTime = now]

\* (mutant) a success branch that leaves a cancelled task cancelled
CompletedTask_CancelKept(t, v) ==
  IF t.status = CANCELLED THEN t
  ELSE [t EXCEPT !.status = COMPLETED, !.endTime = now, !.duration = now - t.startTime,
                 !.result = v, !.progress = 100]

\* (mutant) the success branch without task.progress = 100
CompletedTask_ProgressKept(t, v) ==
  [t EXCEPT !.status = COMPLETED, !.endTime = now, !.duration = now - t.startTime,
            !.result = v]

\* the success branch of startTask
CompletedTask(t, v) ==
  [t EXCEPT !.status = COMPLETED, !.endTime = now, !.duration = now - t.startTime,
            !.result = v, !.progress = 100]

\* (mutant) a catch branch that leaves a cancelled task cancelled
FailedTask_CancelKept(t, e) ==
  IF t.status = CANCELLED THEN t
  ELSE [t EXCEPT !.status = FAILED, !.endTime = now, !.duration = now - t.startTime,
                 !.error = e]

\* (mutant) a catch branch that records the error and leaves the status
FailedTask_StatusKept(t, e) ==
  [t EXCEPT !.endTime = now, !.duration = now - t.startTime, !.error = e]

\* (mutant) the catch branch without task.error = error
FailedTask_ErrorDropped(t, e) ==
  [t EXCEPT !.status = FAILED, !.endTime = now, !.duration = now - t.startTime]

\* the catch branch of startTask
FailedTask(t, e) ==
  [t EXCEPT !.status = FAILED, !.endTime = now, !.duration = now - t.startTime,
            !.error = e]

\* ---------------------------------------------------------------- Init
RegistryInit ==
  /\ calls = 0
  /\ tasks = << >>
  /\ nextTaskId = 1
  /\ now = 0
  /\ exec = << >>
  /\ promise = << >>
  /\ invoked = << >>
  /\ ret = Ret("init", 0, NULL, NULL)
  /\ events = <<>>
  /\ emitCount = << >>
  /\ issued = {}

\* no call of a wrapper with a task id that startTask refuses
NoCall == [taskId |-> 0, caught |-> NULL, result |-> NULL, settled |-> "pending"]

\* no workflow run yet
WFIdle ==
  /\ pc = "idle"
  /\ wf = [kind |-> NULL, blogCount |-> 0, callback |-> FALSE, perBlog |-> 0, taskId |-> 0,
           fetched |-> 0, stored |-> 0, i |-> 0, attempts |-> 0, threw |-> {},
           stopped |-> FALSE, picked |-> 0, image |-> NULL, imageWhy |-> NULL, blogs |-> <<>>, called |-> {},
           announced |-> <<>>,
           report |-> [built |-> FALSE, success |-> FALSE, generatedBlogs |-> 0,
                       blogs |-> <<>>],
           branch |-> NULL, caught |-> NULL, result |-> NULL, settled |-> "pending",
           again |-> NoCall]
  /\ reports = <<>>

\* fetchRSSFeeds not called
FxIdle == [phase |-> "idle"]

\* no ranking asked for
RkIdle == [phase |-> "idle"]

\* executeIncrementalWorkflow not called; processed is the number of stored
\* articles the repository holds as processed
IncIdle(processed) ==
  [phase |-> "idle", processed |-> processed, blogCount |-> 0, i |-> 0,
   existingArticles |-> 0, processedMetadata |-> 0, candidates |-> 0, checked |-> FALSE,
   called |-> {}, generatedBlogs |-> 0, caught |-> NULL, settled |-> "pending", result |-> NULL]

\* main() never run: no data/processed.json yet
MainIdle ==
  [phase |-> "idle", run |-> 0, file |-> [exists |-> FALSE, guids |-> {}],
   articles |-> {}, newArticles |-> {}, analysed |-> [r \in 1 .. MaxRuns |-> {}], saved |-> {}, recorded |-> {},
   completed |-> {}, exit |-> NULL]

\* executeCleanupWorkflow not called
CwIdle == [phase |-> "idle", caught |-> NULL, settled |-> "pending", result |-> NULL]

\* articles the repository can hold, by id
Articles == 1 .. MaxStored

\* executeStrategy not called: the repository holds unprocessed and processed
EsIdle(unprocessed, processed) ==
  [phase |-> "idle", unprocessed |-> unprocessed, processed |-> processed, count |-> 0,
   selectedArticles |-> {}, articlesPerBlog |-> 0, i |-> 0, unprocessedArticles |-> {},
   posts |-> <<>>, generatedBlogs |-> <<>>]

\* saveReport not called by any run; data/reports is empty
RpIdle ==
  [clock |-> 0, files |-> << >>, lost |-> {},
   run |-> [r \in 1 .. MaxPipelines |-> [phase |-> "idle", timestamp |-> 0, names |-> {}]]]

\* no function-level call in progress
FnIdle ==
  /\ fx = FxIdle /\ rk = RkIdle /\ inc = IncIdle(0) /\ main = MainIdle /\ cw = CwIdle
  /\ es = EsIdle({}, {}) /\ rp = RpIdle

Init == RegistryInit /\ WFIdle /\ FnIdle /\ store = 0

\* -------------------------------------------------------------- actions
\* one more call by a caller of the registry; no workflow run is touched
Call == calls < MaxCalls /\ calls' = calls + 1 /\ UNCHANGED wfvars

\* time passes
Tick ==
  /\ Call
  /\ now' = now + 1
  /\ ret' = Ret("tick", 0, NULL, NULL)
  /\ Emit(<<>>)
  /\ UNCHANGED <<tasks, nextTaskId, exec, promise, invoked, issued>>

\* (mutant) an id derived from the size of the map
FreshId_FromSize == Cardinality(DOMAIN tasks) + 1

\* the id createTask hands out: `task_${this.nextTaskId++}`
FreshId == nextTaskId

CreateTask(type) ==
  LET id == FreshId IN
  /\ Call
  /\ nextTaskId' = nextTaskId + 1
  /\ tasks' = With(tasks, id, NewTask(id, type))
  /\ Emit(<<Ev("taskCreated", id)>>)
  /\ ret' = Ret("createTask", id, NULL, NULL)
  /\ issued' = issued \cup {id}
  /\ exec' = With(exec, id, Settled("none", NULL))
  /\ promise' = With(promise, id, Settled("none", NULL))
  /\ invoked' = With(invoked, id, 0)
  /\ now' = now

\* (mutant) startTask that only refuses a task that is running
StartAllowed_NotRunning(id) == tasks[id].status # IN_PROGRESS

\* may startTask go ahead with this task?
StartAllowed(id) == tasks[id].status = PENDING

\* startTask up to the first suspension of the executor
StartTaskBody(id) ==
  IF ~Has(id) THEN
    /\ ret' = Ret("startTask", id, "NotFound", NULL)
    /\ Emit(<<>>)
    /\ UNCHANGED <<tasks, exec, promise, invoked>>
  ELSE IF ~StartAllowed(id) THEN
    /\ ret' = Ret("startTask", id, "BadStatus", tasks[id].status)
    /\ Emit(<<>>)
    /\ UNCHANGED <<tasks, exec, promise, invoked>>
  ELSE
    /\ tasks' = [tasks EXCEPT ![id] = StartedTask(@)]
    /\ Emit(<<Ev("taskStarted", id)>>)
    /\ exec' = [exec EXCEPT ![id] = Settled("running", NULL)]
    /\ invoked' = [invoked EXCEPT ![id] = @ + 1]
    /\ promise' = [promise EXCEPT ![id] = Settled("pending", NULL)]
    /\ ret' = Ret("startTask", id, NULL, NULL)

StartTask(id) ==
  /\ Call
  /\ StartTaskBody(id)
  /\ UNCHANGED <<nextTaskId, now, issued>>

\* updateProgress(taskId, progress, step, message)
UpdateProgressBody(id, p, step, message) ==
  /\ tasks' = UpdateProgressIn(tasks, id, p, step, message)
  /\ Emit(ProgressEvents(tasks, id))

\* a call of updateProgress, by the callback startTask hands to the executor
\* (which may still be called after the task was cancelled) or by any other
\* caller, such as the HTTP layer's progress callback
UpdateProgress(id, p, step, message) ==
  /\ Call
  /\ UpdateProgressBody(id, p, step, message)
  /\ ret' = Ret("updateProgress", id, NULL, [p |-> p, step |-> step, message |-> message])
  /\ UNCHANGED <<nextTaskId, now, exec, promise, invoked, issued>>

\* (mutant) a cancel that reaches every running task, not only the one named
CancelTaskBody_EveryRunning(id) ==
  IF CancelAllowed(id) THEN
    /\ tasks' = [i \in DOMAIN tasks |->
                   IF tasks[i].status = IN_PROGRESS
                   THEN [tasks[i] EXCEPT !.status = CANCELLED] ELSE tasks[i]]
    /\ Emit(<<Ev("taskCancelled", id)>>)
  ELSE
    /\ tasks' = tasks
    /\ Emit(<<>>)

\* cancelTask(taskId)
CancelTaskBody(id) ==
  IF CancelAllowed(id) THEN
    /\ tasks' = [tasks EXCEPT ![id].status = CANCELLED]
    /\ Emit(<<Ev("taskCancelled", id)>>)
  ELSE
    /\ tasks' = tasks
    /\ Emit(<<>>)

CancelTask(id) ==
  /\ Call
  /\ CancelTaskBody(id)
  /\ ret' = Ret("cancelTask", id, NULL, NULL)
  /\ UNCHANGED <<nextTaskId, now, exec, promise, invoked, issued>>

\* the executor's promise resolves with v: startTask continues after its await
ExecutorResolve(id, v) ==
  /\ Call
  /\ id \in DOMAIN exec
  /\ exec[id].state = "running"
  /\ exec' = [exec EXCEPT ![id] = Settled("resolved", v)]
  /\ tasks' = [tasks EXCEPT ![id] = CompletedTask(@, v)]
  /\ Emit(<<Ev("taskCompleted", id)>>)
  /\ promise' = [promise EXCEPT ![id] = Settled("resolved", NULL)]
  /\ ret' = Ret("resolve", id, NULL, NULL)
  /\ UNCHANGED <<nextTaskId, now, invoked, issued>>

\* the executor's promise rejects with e: startTask's catch block runs
ExecutorReject(id, e) ==
  /\ Call
  /\ id \in DOMAIN exec
  /\ exec[id].state = "running"
  /\ exec' = [exec EXCEPT ![id] = Settled("rejected", e)]
  /\ tasks' = [tasks EXCEPT ![id] = FailedTask(@, e)]
  /\ Emit(<<Ev("taskFailed", id)>>)
  /\ promise' = [promise EXCEPT ![id] = Settled("rejected", e)]
  /\ ret' = Ret("reject", id, NULL, NULL)
  /\ UNCHANGED <<nextTaskId, now, invoked, issued>>

\* (mutant) getTask without `|| null`
getTask_Undefined(id) == IF Has(id) THEN tasks[id] ELSE "undefined"

\* getTask(taskId) : the record itself, or null
getTask(id) == IF Has(id) THEN tasks[id] ELSE NULL

\* getTaskStatus(taskId)
getTaskStatus(id) == IF Has(id) THEN tasks[id].status ELSE NULL

\* what `undefined++` leaves in a property: NaN
NaNCount == -1

\* stats[key]++
Incremented(stats, key) ==
  IF key \notin DOMAIN stats THEN With(stats, key, NaNCount)
  ELSE IF stats[key] = NaNCount THEN stats
  ELSE [stats EXCEPT ![key] = @ + 1]

\* for (const task of this.tasks.values()) stats[task.status]++, over the
\* tasks ids holds, in the order of insertion
RECURSIVE CountedStatuses(_, _)
CountedStatuses(stats, ids) ==
  IF ids = {} THEN stats
  ELSE LET first == CHOOSE i \in ids : \A j \in ids : i <= j
       IN CountedStatuses(Incremented(stats, tasks[first].status), ids \ {first})

\* getStats()
getStats ==
  CountedStatuses(
    [key \in {"total", "pending", "inProgress", "completed", "failed", "cancelled"} |->
       IF key = "total" THEN Cardinality(DOMAIN tasks) ELSE 0],
    DOMAIN tasks)

\* task.endTime || task.startTime || now
AgeBase(t) == IF t.endTime # NullTime THEN t.endTime
              ELSE IF t.startTime # NullTime THEN t.startTime ELSE now

\* (mutant) a cleanup that takes every terminal status, CANCELLED included
Evictable_Terminal(maxAge) ==
  {i \in DOMAIN tasks : /\ tasks[i].status \in Terminal
                        /\ now - AgeBase(tasks[i]) > maxAge}

\* the tasks cleanupTasks(maxAge) deletes
Evictable(maxAge) ==
  {i \in DOMAIN tasks : /\ tasks[i].status \in {COMPLETED, FAILED}
                        /\ now - AgeBase(tasks[i]) > maxAge}

CleanupTasks(maxAge) ==
  /\ Call
  /\ tasks' = [i \in (DOMAIN tasks) \ Evictable(maxAge) |-> tasks[i]]
  /\ Emit(<<>>)
  /\ ret' = Ret("cleanupTasks", 0, NULL, maxAge)
  /\ UNCHANGED <<nextTaskId, now, exec, promise, invoked, issued>>

\* ------------------------------------------------------- WorkflowManager
\* the (percent, step, message) triples executeFullWorkflow's executor
\* announces, in order (the step names stand for the source's Chinese labels)
FullSteps ==
  << [p |-> 10,  step |-> "loadConfig", message |-> "loading config"],
     [p |-> 25,  step |-> "fetchRSS",   message |-> "fetching RSS"],
     [p |-> 50,  step |-> "store",      message |-> "storing articles"],
     [p |-> 70,  step |-> "analyze",    message |-> "analysing and generating"],
     [p |-> 90,  step |-> "report",     message |-> "building report"],
     [p |-> 95,  step |-> "saveReport", message |-> "saving report"],
     [p |-> 100, step |-> "done",       message |-> "workflow done"] >>

\* the triples analyzeExistingArticles' executor announces
AnalyzeSteps ==
  << [p |-> 10,  step |-> "loadConfig", message |-> "loading config"],
     [p |-> 50,  step |-> "analyze",    message |-> "analysing and generating"],
     [p |-> 90,  step |-> "report",     message |-> "building report"],
     [p |-> 100, step |-> "done",       message |-> "analysis done"] >>

\* the triples executeFetchWorkflow's executor announces; the third one only
\* when nothing was fetched
FetchSteps ==
  << [p |-> 15,  step |-> "loadConfig", message |-> "loading config"],
     [p |-> 45,  step |-> "fetchRSS",   message |-> "fetching RSS"],
     [p |-> 100, step |-> "done",       message |-> "no articles fetched"],
     [p |-> 75,  step |-> "store",      message |-> "storing articles"],
     [p |-> 90,  step |-> "report",     message |-> "building report"],
     [p |-> 100, step |-> "done",       message |-> "fetch done"] >>

\* the three task-backed pipelines and the type of the task each creates
Kinds == {"full", "analyze", "fetch"}

StepsOf(kind) ==
  CASE kind = "full" -> FullSteps
    [] kind = "analyze" -> AnalyzeSteps
    [] kind = "fetch" -> FetchSteps

TaskTypeOf(kind) ==
  CASE kind = "full" -> "fullWorkflow"
    [] kind = "analyze" -> "analyzeWorkflow"
    [] kind = "fetch" -> "fetchWorkflow"

\* where in its table each pipeline keeps the step of a given role
StoreStep(kind) == IF kind = "full" THEN 3 ELSE 4
AnalyzeStep(kind) == IF kind = "full" THEN 4 ELSE 2
ReportStep(kind) == IF kind = "analyze" THEN 3 ELSE 5
DoneStep(kind) == CASE kind = "full" -> 7 [] kind = "analyze" -> 4 [] kind = "fetch" -> 6

\* strategyConfig.articlesPerBlog (default)
ArticlesPerBlog == 5

\* (mutant) a progress callback that reports the step with no percentage
AnnounceStep_CallbackResets(ts, id, a, twice) ==
  LET once == UpdateProgressIn(ts, id, a.p, a.step, a.message)
  IN IF twice THEN UpdateProgressIn(once, id, 0, a.step, a.message) ELSE once

\* progress(p, step, message); if (progressCallback) progressCallback(...)
\* both end in taskQueue.updateProgress(taskId, ...)
AnnounceStep(ts, id, a, twice) ==
  LET once == UpdateProgressIn(ts, id, a.p, a.step, a.message)
  IN IF twice THEN UpdateProgressIn(once, id, a.p, a.step, a.message) ELSE once

\* the k-th announcement of the running pipeline
Announce(ts, id, k, twice) == AnnounceStep(ts, id, StepsOf(wf.kind)[k], twice)

AnnounceEvents(ts, id, twice) ==
  ProgressEvents(ts, id) \o (IF twice THEN ProgressEvents(ts, id) ELSE <<>>)

Id == wf.taskId

\* the executor has called progress(...) with the k-th triple of its pipeline
Issued(w, k) == [w EXCEPT !.announced = Append(@, StepsOf(wf.kind)[k])]

\* (mutant) an executor that polls the task's status before each step
ExecutorContinues_Polls(id) == tasks[id].status # CANCELLED

\* may the executor go on with its next statement?  It never looks at the
\* task's status between steps.
ExecutorContinues(id) == TRUE

\* a step of the executor that ends at the next await
WFAdvance(k, newPc, newWf) ==
  /\ tasks' = Announce(tasks, Id, k, wf.callback)
  /\ Emit(AnnounceEvents(tasks, Id, wf.callback))
  /\ pc' = newPc
  /\ wf' = Issued(newWf, k)
  /\ ret' = Ret("executor", Id, NULL, NULL)
  /\ UNCHANGED <<fx, rk, inc, main, cw, es, rp, calls, nextTaskId, now, exec, promise, invoked, issued>>

\* a step of the executor that announces nothing before its next await
WFInner(newPc, newWf) ==
  /\ pc' = newPc
  /\ wf' = newWf
  /\ Emit(<<>>)
  /\ ret' = Ret("executor", Id, NULL, NULL)
  /\ UNCHANGED <<fx, rk, inc, main, cw, es, rp, calls, tasks, nextTaskId, now, exec, promise, invoked, issued>>

\* const task = taskQueue.getTask(taskId): the branch the wrapper takes on
\* task.status once startTask has resolved
StatusBranch(t) ==
  IF t.status = COMPLETED THEN "result"
  ELSE IF t.status = FAILED THEN "error"
  ELSE "abnormal"

\* what the wrapper's catch block receives on that branch, if anything
ThrownAfterStart(t) ==
  CASE StatusBranch(t) = "result" -> NULL
    [] StatusBranch(t) = "error" -> t.error
    [] OTHER -> "abnormalStatus"

\* what the wrapper returns on that branch: task.result, or the catch
\* block's createWorkflowResult(false, ..., error)
ReturnedAfterStart(t) ==
  IF StatusBranch(t) = "result" THEN t.result ELSE "workflowFailed"

\* (mutant) a catch block that lets the error through to the caller
WorkflowCatch_Rethrows(error, w) == [w EXCEPT !.caught = error, !.settled = "rejected"]

\* catch (error) { return this.createWorkflowResult(false, ..., error) }: the
\* wrapper's promise resolves with the failure result, whose data is the error
WorkflowCatch(error, w) ==
  [w EXCEPT !.caught = error, !.result = "workflowFailed", !.settled = "resolved"]

\* the wrapper once startTask has settled on task t: return task.result, or
\* throw into its own catch block
WorkflowSettles(t, w) ==
  IF StatusBranch(t) = "result"
  THEN [w EXCEPT !.branch = "result", !.result = ReturnedAfterStart(t), !.settled = "resolved"]
  ELSE WorkflowCatch(ThrownAfterStart(t), [w EXCEPT !.branch = StatusBranch(t)])

\* the executor returns v: startTask's success branch, then the wrapper
\* checks the task's status and returns
WFReturn(ts, evs, v, newWf) ==
  /\ tasks' = [ts EXCEPT ![Id] = CompletedTask(@, v)]
  /\ Emit(evs \o <<Ev("taskCompleted", Id)>>)
  /\ exec' = [exec EXCEPT ![Id] = Settled("resolved", v)]
  /\ promise' = [promise EXCEPT ![Id] = Settled("resolved", NULL)]
  /\ pc' = "done"
  /\ wf' = WorkflowSettles(CompletedTask(ts[Id], v), newWf)
  /\ ret' = Ret("executor", Id, NULL, NULL)
  /\ UNCHANGED <<fx, rk, inc, main, cw, es, rp, calls, nextTaskId, now, invoked, issued>>

\* (mutant) an executor that catches the error and returns a failure result
WFThrow_Swallowed(e, newWf) == WFReturn(tasks, <<>>, "workflowFailed", newWf)

\* the executor throws e: startTask's catch branch rethrows, the wrapper's
\* catch returns createWorkflowResult(false, ..., error)
WFThrow(e, newWf) ==
  /\ tasks' = [tasks EXCEPT ![Id] = FailedTask(@, e)]
  /\ Emit(<<Ev("taskFailed", Id)>>)
  /\ exec' = [exec EXCEPT ![Id] = Settled("rejected", e)]
  /\ promise' = [promise EXCEPT ![Id] = Settled("rejected", e)]
  /\ pc' = "done"
  /\ wf' = WorkflowCatch(e, newWf)
  /\ ret' = Ret("executor", Id, NULL, NULL)
  /\ UNCHANGED <<fx, rk, inc, main, cw, es, rp, calls, nextTaskId, now, invoked, issued>>

Called(name) == [wf EXCEPT !.called = @ \cup {name}]

\* a wrapper called with a task id that startTask refuses, because no such
\* task exists or because the task is not PENDING: startTask throws before the
\* executor runs and the wrapper's catch block settles the call. The three
\* wrappers share this code; a PENDING id is the case WFBegin models.
WFCallAgain(taskId) ==
  /\ wf.again.settled = "pending"
  /\ ~(Has(taskId) /\ StartAllowed(taskId))
  /\ StartTaskBody(taskId)
  /\ wf' = [wf EXCEPT !.again = WorkflowCatch(ret'.err, [NoCall EXCEPT !.taskId = taskId])]
  /\ UNCHANGED <<calls, nextTaskId, now, issued, pc, store, reports, fx, rk, inc, main, cw, es, rp>>

\* executeFullWorkflow / analyzeExistingArticles / executeFetchWorkflow:
\* createTask, startTask, and the executor up to its first await (loadConfig).
\* perBlog is config.strategy.articlesPerBlog of the configuration on disk.
WFBegin(kind, blogCount, callback, perBlog) ==
  LET id == FreshId
      created == With(tasks, id, NewTask(id, TaskTypeOf(kind)))
      started == [created EXCEPT ![id] = StartedTask(@)]
  IN
  /\ pc = "idle"
  /\ kind = "fetch" => (blogCount = 0 /\ perBlog = ArticlesPerBlog)
  /\ nextTaskId' = nextTaskId + 1
  /\ issued' = issued \cup {id}
  /\ tasks' = AnnounceStep(started, id, StepsOf(kind)[1], callback)
  /\ Emit(<<Ev("taskCreated", id), Ev("taskStarted", id)>>
            \o AnnounceEvents(started, id, callback))
  /\ exec' = With(exec, id, Settled("running", NULL))
  /\ promise' = With(promise, id, Settled("pending", NULL))
  /\ invoked' = With(invoked, id, 1)
  /\ pc' = "loadConfig"
  /\ wf' = [wf EXCEPT !.kind = kind, !.blogCount = blogCount, !.callback = callback,
                      !.perBlog = perBlog, !.taskId = id, !.called = {"loadConfig"},
                      !.announced = <<StepsOf(kind)[1]>>]
  /\ ret' = Ret("executeWorkflow", id, NULL, NULL)
  /\ UNCHANGED <<fx, rk, inc, main, cw, es, rp, calls, now, store, reports>>

\* where executeStrategy first suspends: with count = 0 its loop does not
\* run and the caller goes on to generateReport
AfterStore(w) ==
  IF w.blogCount = 0 THEN "report" ELSE "select"

\* the executor announces the analysis step and calls executeStrategy
EnterStrategy(w) ==
  LET entered == [Issued(w, AnalyzeStep(wf.kind)) EXCEPT
                    !.i = 0, !.called = @ \cup {"executeStrategy"}]
      a == Announce(tasks, Id, AnalyzeStep(wf.kind), wf.callback)
      none == entered.blogCount = 0
  IN /\ tasks' = IF none THEN Announce(a, Id, ReportStep(wf.kind), wf.callback) ELSE a
     /\ Emit(AnnounceEvents(tasks, Id, wf.callback)
               \o (IF none THEN AnnounceEvents(tasks, Id, wf.callback) ELSE <<>>))
     /\ pc' = AfterStore(entered)
     /\ wf' = IF none
              THEN [Issued(entered, ReportStep(wf.kind)) EXCEPT
                      !.called = @ \cup {"generateReport"}]
              ELSE entered
     /\ ret' = Ret("executor", Id, NULL, NULL)
     /\ UNCHANGED <<fx, rk, inc, main, cw, es, rp, calls, nextTaskId, now, exec, promise, invoked, issued>>

\* await this.loadConfig()
WFLoadConfig(ok) ==
  /\ pc = "loadConfig"
  /\ ExecutorContinues(Id)
  /\ IF ~ok THEN WFThrow("configError", wf)
     ELSE IF wf.kind = "analyze" THEN EnterStrategy(wf)
     ELSE WFAdvance(2, "fetch", Called("fetchRSSFeeds"))
  /\ UNCHANGED <<store, reports>>

\* (mutant) a pipeline that goes on with an empty list of articles
NothingFetched_Ignored(n) == FALSE

\* if (articles.length === 0)
NothingFetched(n) == n = 0

\* await fetchRSSFeeds(feeds, 3); articles.length === 0 ends the run
WFFetch(n) ==
  /\ pc = "fetch"
  /\ ExecutorContinues(Id)
  /\ IF ~NothingFetched(n)
     THEN WFAdvance(StoreStep(wf.kind), "store",
                    [Called("saveArticle") EXCEPT !.fetched = n, !.stored = 0])
     ELSE IF wf.kind = "fetch"
     THEN WFReturn(Announce(tasks, Id, 3, wf.callback),
                   AnnounceEvents(tasks, Id, wf.callback), "noArticles", Issued(wf, 3))
     ELSE WFReturn(tasks, <<>>, "noArticles", wf)
  /\ UNCHANGED <<store, reports>>

\* executeStrategy returned: announce the report step, call generateReport
\* (used when the strategy loop ends without a further await)
StrategyDone(newWf) ==
  WFAdvance(ReportStep(wf.kind), "report",
            [newWf EXCEPT !.called = @ \cup {"generateReport"}])

\* the end of one iteration of executeStrategy's loop
NextIteration(newWf) ==
  IF newWf.i + 1 < newWf.blogCount
  THEN WFInner("select", [newWf EXCEPT !.i = @ + 1, !.imageWhy = NULL])
  ELSE StrategyDone([newWf EXCEPT !.imageWhy = NULL])

\* (mutant) an iteration's error that escapes executeStrategy
IterationThrew_Aborts(w) == WFThrow("iterationError", w)

\* catch (error) inside the loop: the iteration is given up, the loop goes on
IterationThrew(w) == NextIteration([w EXCEPT !.threw = @ \cup {w.i}])

\* await StorageManager.saveArticle(article), for each fetched article
WFStore(ok) ==
  /\ pc = "store"
  /\ ExecutorContinues(Id)
  /\ IF ~ok THEN WFThrow("storeError", wf) /\ store' = store
     ELSE /\ store' = store + 1
          /\ IF wf.stored + 1 < wf.fetched
             THEN WFInner("store", [wf EXCEPT !.stored = @ + 1])
             ELSE IF wf.kind = "fetch"
             THEN WFAdvance(5, "report", [Called("getArticleStats") EXCEPT !.stored = @ + 1])
             ELSE EnterStrategy([wf EXCEPT !.stored = @ + 1])
  /\ UNCHANGED reports

\* await ArticleRepository.getUnprocessedArticles(articlesPerBlog); an empty
\* answer leaves the loop (break)
WFSelect(ok) ==
  /\ pc = "select"
  /\ ExecutorContinues(Id)
  /\ LET k == Min(wf.perBlog, store)
         w == [Called("getUnprocessedArticles") EXCEPT !.attempts = @ + 1]
     IN IF ~ok THEN IterationThrew(w)
        ELSE IF k = 0 THEN StrategyDone([w EXCEPT !.stopped = TRUE])
        ELSE WFInner("analyze", [w EXCEPT !.picked = k, !.called = @ \cup {"analyzeArticles"}])
  /\ UNCHANGED <<store, reports>>

\* await this.analyzeArticles(...)
WFAnalyze(ok) ==
  /\ pc = "analyze"
  /\ ExecutorContinues(Id)
  /\ IF ok THEN WFInner("generate", Called("generateBlog")) ELSE IterationThrew(wf)
  /\ UNCHANGED <<store, reports>>

\* await this.generateBlog(...)
WFGenerate(ok) ==
  /\ pc = "generate"
  /\ ExecutorContinues(Id)
  /\ IF ok THEN WFInner("image", Called("generateBlogImage")) ELSE IterationThrew(wf)
  /\ UNCHANGED <<store, reports>>

\* what the image step meets: is there a prompt, can the image directory be
\* prepared, can the fallback directory, is OPENAI_API_KEY set, does the
\* image API call (request, download, write) succeed
ImageEnvs ==
  [prompt : BOOLEAN, dirOk : BOOLEAN, fallbackOk : BOOLEAN, keySet : BOOLEAN,
   apiOk : BOOLEAN]

\* a call's outcome: a returned value, or an exception
Returns(value) == [threw |-> FALSE, value |-> value]
Throws == [threw |-> TRUE, value |-> NULL]

\* generateImage(imagePrompt, imagesDir)
generateImage(env) ==
  IF ~env.dirOk
  THEN (IF env.fallbackOk THEN Returns(NULL) ELSE Throws)
  ELSE IF ~env.keySet THEN Returns(NULL)
  ELSE IF env.apiOk THEN Returns("image.png")
  ELSE Returns(NULL)

\* (mutant) generateBlogImage without its try/catch
generateBlogImage_NoCatch(env) ==
  IF ~env.prompt THEN Returns(NULL) ELSE generateImage(env)

\* StrategyExecutor.generateBlogImage(imagePrompt, imagesDir)
generateBlogImage(env) ==
  IF ~env.prompt THEN Returns(NULL)
  ELSE IF generateImage(env).threw THEN Returns(NULL)
  ELSE generateImage(env)

\* why the image step of the iteration under way gave what it gave
ImageCause(env) ==
  IF ~env.prompt THEN "noPrompt"
  ELSE IF ~env.dirOk THEN "dirFailed"
  ELSE IF ~env.keySet THEN "noKey"
  ELSE IF ~env.apiOk THEN "apiThrew"
  ELSE "generated"

\* const imagePath = await this.generateBlogImage(...)
WFImage(env) ==
  /\ pc = "image"
  /\ ExecutorContinues(Id)
  /\ IF generateBlogImage(env).threw THEN IterationThrew(wf)
     ELSE WFInner("save", [Called("savePost") EXCEPT !.image = generateBlogImage(env).value,
                                                    !.imageWhy = ImageCause(env)])
  /\ UNCHANGED <<store, reports>>

\* (mutant) an iteration that marks its articles before it saves the post
WFSave_MarksFirst(ok) ==
  /\ pc = "save"
  /\ ExecutorContinues(Id)
  /\ store' = store - wf.picked
  /\ IF ok THEN WFInner("mark", Called("markArticleProcessed")) ELSE IterationThrew(wf)
  /\ UNCHANGED reports

\* await saveJekyllPost(...) / ArticleFormatter.saveArticle(...)
WFSave(ok) ==
  /\ pc = "save"
  /\ ExecutorContinues(Id)
  /\ IF ok THEN WFInner("mark", Called("markArticleProcessed")) ELSE IterationThrew(wf)
  /\ UNCHANGED <<store, reports>>

\* await Promise.all(unprocessedArticles.map(markArticleProcessed)); when one
\* of the calls fails, any of the others may still have marked its article
WFMark(ok, marked) ==
  /\ pc = "mark"
  /\ ExecutorContinues(Id)
  /\ marked \in 0 .. wf.picked
  /\ ok <=> marked = wf.picked
  /\ store' = store - marked
  /\ IF ok
     THEN NextIteration([wf EXCEPT !.blogs = Append(@,
            [iteration |-> wf.i, processedArticles |-> wf.picked, imagePath |-> wf.image])])
     ELSE IterationThrew(wf)
  /\ UNCHANGED reports

\* the report generateReport builds from generatedBlogs
BuiltReport(blogs) ==
  [built |-> TRUE, success |-> TRUE, generatedBlogs |-> Len(blogs), blogs |-> blogs]

\* (mutant) a fetch report that counts the fetched articles as generated
FetchReport_CountsFetched(fetched) ==
  [built |-> TRUE, success |-> TRUE, generatedBlogs |-> fetched, blogs |-> <<>>]

\* the report executeFetchWorkflow builds: generatedBlogs: 0
FetchReport(fetched) ==
  [built |-> TRUE, success |-> TRUE, generatedBlogs |-> 0, blogs |-> <<>>]

\* await this.generateReport(...) (it awaits getArticleStats); the fetch
\* pipeline awaits getArticleStats itself.  Only executeFullWorkflow
\* announces the saving of the report.
WFReport(ok) ==
  /\ pc = "report"
  /\ ExecutorContinues(Id)
  /\ LET r == IF wf.kind = "fetch" THEN FetchReport(wf.fetched) ELSE BuiltReport(wf.blogs)
         w == [Called("saveReport") EXCEPT !.report = r]
     IN IF ~ok THEN WFThrow("reportError", wf)
        ELSE IF wf.kind = "full" THEN WFAdvance(6, "saveJson", w)
        ELSE WFInner("saveJson", w)
  /\ UNCHANGED <<store, reports>>

\* saveReport: await fs.writeFile(jsonPath, ...)
WFSaveJson(ok) ==
  /\ pc = "saveJson"
  /\ ExecutorContinues(Id)
  /\ IF ok THEN WFInner("saveHtml", wf) /\ reports' = Append(reports, "json")
     ELSE WFThrow("saveError", wf) /\ reports' = reports
  /\ store' = store

\* what the executor returns after saving: the report, or (fetch) a
\* createWorkflowResult(true, ..., report)
Returned(kind) == IF kind = "fetch" THEN "fetchSucceeded" ELSE "report"

\* saveHTMLReport: await fs.writeFile(htmlPath, ...); then the last
\* announcement and the return
WFSaveHtml(ok) ==
  /\ pc = "saveHtml"
  /\ ExecutorContinues(Id)
  /\ IF ok THEN /\ WFReturn(Announce(tasks, Id, DoneStep(wf.kind), wf.callback),
                            AnnounceEvents(tasks, Id, wf.callback), Returned(wf.kind),
                            Issued(wf, DoneStep(wf.kind)))
                /\ reports' = Append(reports, "html")
     ELSE WFThrow("saveError", wf) /\ reports' = reports
  /\ store' = store

\* POST /api/tasks/:taskId/cancel while the run exists
WFCancel ==
  /\ pc # "idle"
  /\ CancelTaskBody(Id)
  /\ ret' = Ret("cancelTask", Id, NULL, NULL)
  /\ UNCHANGED <<calls, nextTaskId, now, exec, promise, invoked, issued, wfvars>>

\* the awaited collaborator call settles and the executor runs to its next await
WFExecutor ==
  \/ \E ok \in BOOLEAN : WFLoadConfig(ok)
  \/ \E n \in 0 .. MaxArticles : WFFetch(n)
  \/ \E ok \in BOOLEAN : WFStore(ok)
  \/ \E ok \in BOOLEAN : WFSelect(ok)
  \/ \E ok \in BOOLEAN : WFAnalyze(ok)
  \/ \E ok \in BOOLEAN : WFGenerate(ok)
  \/ \E env \in ImageEnvs : WFImage(env)
  \/ \E ok \in BOOLEAN : WFSave(ok)
  \/ \E ok \in BOOLEAN, marked \in 0 .. ArticlesPerBlog : WFMark(ok, marked)
  \/ \E ok \in BOOLEAN : WFReport(ok)
  \/ \E ok \in BOOLEAN : WFSaveJson(ok)
  \/ \E ok \in BOOLEAN : WFSaveHtml(ok)

\* one run of executeFullWorkflow under the default configuration
WFNext ==
  \/ \E blogCount \in 0 .. MaxBlogs, callback \in BOOLEAN :
       WFBegin("full", blogCount, callback, ArticlesPerBlog)
  \/ \E ok \in BOOLEAN : WFLoadConfig(ok)
  \/ \E n \in 0 .. MaxArticles : WFFetch(n)
  \/ \E ok \in BOOLEAN : WFStore(ok)
  \/ \E ok \in BOOLEAN : WFSelect(ok)
  \/ \E ok \in BOOLEAN : WFAnalyze(ok)
  \/ \E ok \in BOOLEAN : WFGenerate(ok)
  \/ \E env \in ImageEnvs : WFImage(env)
  \/ \E ok \in BOOLEAN : WFSave(ok)
  \/ \E ok \in BOOLEAN, marked \in 0 .. ArticlesPerBlog : WFMark(ok, marked)
  \/ \E ok \in BOOLEAN : WFReport(ok)
  \/ \E ok \in BOOLEAN : WFSaveJson(ok)
  \/ \E ok \in BOOLEAN : WFSaveHtml(ok)
  \/ WFCancel

\* the article store may already hold unprocessed articles
InitialStore == {0, 1}

WFInit == RegistryInit /\ WFIdle /\ FnIdle /\ store \in InitialStore

WFSpec == WFInit /\ [][WFNext]_vars

\* every awaited collaborator call eventually resolves or rejects
FairWFSpec == WFSpec /\ WF_vars(WFExecutor)

\* config.strategy.articlesPerBlog: a configured 1, or the default
PerBlogArgs == {1, ArticlesPerBlog}

\* one run of any of the three task-backed pipelines, under either
\* configuration, with cancelTask arriving at any time
PipeNext ==
  \/ \E kind \in Kinds, blogCount \in 0 .. MaxBlogs, perBlog \in PerBlogArgs :
       WFBegin(kind, blogCount, FALSE, perBlog)
  \/ \E ok \in BOOLEAN : WFLoadConfig(ok)
  \/ \E n \in 0 .. MaxArticles : WFFetch(n)
  \/ \E ok \in BOOLEAN : WFStore(ok)
  \/ \E ok \in BOOLEAN : WFSelect(ok)
  \/ \E ok \in BOOLEAN : WFAnalyze(ok)
  \/ \E ok \in BOOLEAN : WFGenerate(ok)
  \/ \E env \in ImageEnvs : WFImage(env)
  \/ \E ok \in BOOLEAN : WFSave(ok)
  \/ \E ok \in BOOLEAN, marked \in 0 .. ArticlesPerBlog : WFMark(ok, marked)
  \/ \E ok \in BOOLEAN : WFReport(ok)
  \/ \E ok \in BOOLEAN : WFSaveJson(ok)
  \/ \E ok \in BOOLEAN : WFSaveHtml(ok)
  \/ WFCancel

\* the analyze-only pipeline needs a store that outlasts several iterations
PipeStore == 0 .. (MaxBlogs + 1)

PipeInit == RegistryInit /\ WFIdle /\ FnIdle /\ store \in PipeStore

PipeSpec == PipeInit /\ [][PipeNext]_vars

\* one run of any of the three pipelines under the default configuration,
\* started from the command line (no callback) or by the HTTP layer, whose
\* progress callback reports each step to the same task once more
HttpNext ==
  \/ \E kind \in Kinds, blogCount \in 0 .. MaxBlogs, callback \in BOOLEAN :
       WFBegin(kind, blogCount, callback, ArticlesPerBlog)
  \/ \E ok \in BOOLEAN : WFLoadConfig(ok)
  \/ \E n \in 0 .. MaxArticles : WFFetch(n)
  \/ \E ok \in BOOLEAN : WFStore(ok)
  \/ \E ok \in BOOLEAN : WFSelect(ok)
  \/ \E ok \in BOOLEAN : WFAnalyze(ok)
  \/ \E ok \in BOOLEAN : WFGenerate(ok)
  \/ \E env \in ImageEnvs : WFImage(env)
  \/ \E ok \in BOOLEAN : WFSave(ok)
  \/ \E ok \in BOOLEAN, marked \in 0 .. ArticlesPerBlog : WFMark(ok, marked)
  \/ \E ok \in BOOLEAN : WFReport(ok)
  \/ \E ok \in BOOLEAN : WFSaveJson(ok)
  \/ \E ok \in BOOLEAN : WFSaveHtml(ok)
  \/ WFCancel

HttpSpec == WFInit /\ [][HttpNext]_vars

\* --------------------------------------------------------- fetchRSSFeeds
\* retries of one request
MAX_RETRIES == 3

\* feeds, as the number of items each one's RSS document holds: none, or
\* more than the smaller limit
ItemCounts == {0, 2}

FeedLists == UNION {[1 .. n -> ItemCounts] : n \in 0 .. MaxFeeds}

\* limit: the pipelines pass 3; a smaller one cuts a feed's items
LimitArgs == {1, 3}

\* concurrency (10 by default): one feed at a time, or two; two feeds or
\* fewer then make a single batch, as any list of up to 10 feeds does by default
ConcurrencyArgs == {1, 2}

\* rss.items.slice(0, limit).map(...): item k of feed j
FeedItems(j, count, limit) == [k \in 1 .. Min(count, limit) |-> <<j, k>>]

\* (mutant) fetchSingleRSSFeed whose catch rethrows
OnFeedError_Rethrows == [threw |-> TRUE, items |-> <<>>]

\* fetchSingleRSSFeed's catch: log, return []
OnFeedError == [threw |-> FALSE, items |-> <<>>]

\* batchResults.forEach(articles => allArticles.push(...articles))
RECURSIVE Flatten(_, _, _)
Flatten(st, lo, hi) ==
  IF lo > hi THEN <<>> ELSE st[lo].out \o Flatten(st, lo + 1, hi)

\* for (let i = 0; i < feeds.length; i += concurrency): the batch that
\* starts at feed lo, or the return when no feed is left
StartBatch(f, lo) ==
  IF lo > Len(f.feeds)
  THEN [f EXCEPT !.phase = "resolved", !.lo = lo, !.st = << >>]
  ELSE [f EXCEPT !.lo = lo,
                 !.st = [j \in lo .. Min(lo + f.concurrency - 1, Len(f.feeds)) |->
                           [stage |-> "get", tries |-> MAX_RETRIES, requests |-> <<>>,
                            out |-> <<>>]]]

\* fetchSingleRSSFeed(feed j) settles; when it is the batch's last one,
\* Promise.all settles and the loop goes on
FeedEnds(j, outcome, failed) ==
  LET st == [fx.st EXCEPT ![j] = [@ EXCEPT !.stage = "done", !.out = outcome.items]]
      f == [fx EXCEPT !.st = st,
                      !.failed = IF failed THEN @ \cup {j} ELSE @]
      hi == fx.lo + Cardinality(DOMAIN fx.st) - 1
  IN IF outcome.threw THEN [f EXCEPT !.phase = "rejected"]
     ELSE IF \A k \in DOMAIN st : st[k].stage = "done"
     THEN StartBatch([f EXCEPT !.all = @ \o Flatten(st, fx.lo, hi)], hi + 1)
     ELSE f

\* what a fetchWithRetry call for feed j settled with: the data or the error
\* of its k-th request
Got(j, state, k) == [feed |-> j, state |-> state, request |-> k]

\* fetchRSSFeeds(feeds, limit, concurrency)
FxStart(feeds, limit, concurrency) ==
  /\ fx.phase = "idle"
  /\ fx' = StartBatch([phase |-> "running", feeds |-> feeds, limit |-> limit,
                       concurrency |-> concurrency, lo |-> 1, st |-> << >>,
                       all |-> <<>>, failed |-> {}, got |-> Got(0, "none", 0)], 1)
  /\ UNCHANGED <<regvars, pc, wf, store, reports, rk, inc, main, cw, es, rp>>

\* (mutant) a retry test that lets retryCount reach -1
RetryLeft_OneMore(retryCount) == retryCount >= 0

\* if (retryCount > 0)
RetryLeft(retryCount) == retryCount > 0

\* fetchWithRetry: axios.get settles; a failure is retried (after the delay,
\* by the recursive call) while retryCount > 0, else rethrown
FxGet(j, ok) ==
  /\ fx.phase = "running"
  /\ j \in DOMAIN fx.st
  /\ fx.st[j].stage = "get"
  /\ LET requests == Append(fx.st[j].requests, ok)
         k == Len(requests)
     IN fx' = IF ok THEN [fx EXCEPT !.st[j].stage = "parse", !.st[j].requests = requests,
                                    !.got = Got(j, "resolved", k)]
              ELSE IF RetryLeft(fx.st[j].tries)
              THEN [fx EXCEPT !.st[j].tries = @ - 1, !.st[j].requests = requests]
              ELSE [FeedEnds(j, OnFeedError, TRUE) EXCEPT !.got = Got(j, "rejected", k)]
  /\ UNCHANGED <<regvars, pc, wf, store, reports, rk, inc, main, cw, es, rp>>

\* parser.parseString settles
FxParse(j, ok) ==
  /\ fx.phase = "running"
  /\ j \in DOMAIN fx.st
  /\ fx.st[j].stage = "parse"
  /\ fx' = IF ok
           THEN FeedEnds(j, [threw |-> FALSE,
                             items |-> FeedItems(j, fx.feeds[j], fx.limit)], FALSE)
           ELSE FeedEnds(j, OnFeedError, TRUE)
  /\ UNCHANGED <<regvars, pc, wf, store, reports, rk, inc, main, cw, es, rp>>

\* no call under way: any call may come
FxCall ==
  /\ fx.phase = "idle"
  /\ \E feeds \in FeedLists, limit \in LimitArgs, concurrency \in ConcurrencyArgs :
       FxStart(feeds, limit, concurrency)

FetchNext ==
  \/ FxCall
  \/ \E j \in 1 .. MaxFeeds, ok \in BOOLEAN : FxGet(j, ok)
  \/ \E j \in 1 .. MaxFeeds, ok \in BOOLEAN : FxParse(j, ok)

FetchSpec == Init /\ [][FetchNext]_vars

\* every axios.get settles (it is given a timeout) and every retry delay ends
FairFetchSpec ==
  FetchSpec /\ \A j \in 1 .. MaxFeeds : WF_vars(\E ok \in BOOLEAN : FxGet(j, ok))

\* ------------------------------------------------ topic ranking
\* generateBlog (update_tasks.js) and generateArticle (article-generator.js)
\* rank the analysis' topics the same way; they differ in the default of
\* maxTopics.
\* JavaScript values the configuration and the AI's JSON may hold: a finite
\* number, undefined/null, NaN, Infinity, or a string that is not a number
Num(k) == [t |-> "num", n |-> k]
NaN == [t |-> "nan", n |-> 0]
Undef == [t |-> "undef", n |-> 0]
Infinity == [t |-> "inf", n |-> 0]
Str == [t |-> "str", n |-> 0]

\* v ?? d
Coalesce(v, d) == IF v.t = "undef" THEN d ELSE v

\* Number(v)
Number(v) == IF v.t \in {"num", "inf"} THEN v ELSE NaN

\* Number.isFinite(x) ? x : 0
FiniteOrZero(v) == IF v.t = "num" THEN v.n ELSE 0

\* a >= b for a number a: false when b is NaN
Geq(a, b) == b.t = "num" /\ a >= b.n

\* Math.max(a, v)
MathMax(a, v) ==
  IF v.t = "num" THEN Num(Max(a, v.n)) ELSE IF v.t = "inf" THEN Infinity ELSE NaN

\* the end index slice(0, end) uses on an array of length len
SliceEnd(v, len) ==
  IF v.t = "inf" THEN len
  ELSE IF v.t # "num" THEN 0
  ELSE IF v.n < 0 THEN Max(len + v.n, 0)
  ELSE Min(v.n, len)

\* strategyConfig.topicCount (default), generateBlog's fallback for maxTopics
TopicCount == 3

\* generateArticle's fallback for maxTopics
ArticleMaxTopics == 5

\* the two places that rank
RankSites == {"generateBlog", "generateArticle"}

DefaultMaxTopics(site) == IF site = "generateBlog" THEN TopicCount ELSE ArticleMaxTopics

\* Number(topic.noveltyScore ?? 0), made finite
Novelty(topic) == FiniteOrZero(Number(Coalesce(topic.noveltyScore, Num(0))))

\* Number(topic.impactScore ?? 0), made finite
Impact(topic) == FiniteOrZero(Number(Coalesce(topic.impactScore, Num(0))))

\* a topic entry that is null
NullTopic == [name |-> NULL, noveltyScore |-> Undef, impactScore |-> Undef]

\* topic.noveltyScore on a null entry: TypeError
PropertyReadThrows(topic) == topic = NullTopic

\* const topics = Array.isArray(analysis.topics) ? analysis.topics : []
TopicsOf(analysis) == IF analysis.isArray THEN analysis.items ELSE <<>>

\* scoredTopics: each topic with its _score and (for the model) its index
ScoredTopics(topics) ==
  [k \in DOMAIN topics |->
     [topic |-> topics[k], index |-> k, score |-> Novelty(topics[k]) + Impact(topics[k])]]

\* (mutant) a filter that asks for either threshold instead of both
PassesThresholds_Either(topic, cfg) ==
  \/ Geq(Novelty(topic), Number(Coalesce(cfg.minNoveltyScore, Num(0))))
  \/ Geq(Impact(topic), Number(Coalesce(cfg.minImpactScore, Num(0))))

\* the predicate of filteredTopics
PassesThresholds(topic, cfg) ==
  /\ Geq(Novelty(topic), Number(Coalesce(cfg.minNoveltyScore, Num(0))))
  /\ Geq(Impact(topic), Number(Coalesce(cfg.minImpactScore, Num(0))))

\* Array.prototype.filter
RECURSIVE Filter(_, _)
Filter(seq, cfg) ==
  IF seq = <<>> THEN <<>>
  ELSE (IF PassesThresholds(Head(seq).topic, cfg) THEN <<Head(seq)>> ELSE <<>>)
         \o Filter(Tail(seq), cfg)

\* (mutant) an insertion that puts x before the elements of equal score
InsertPosition_BeforeEqual(sorted, x) ==
  Cardinality({k \in DOMAIN sorted : sorted[k].score > x.score}) + 1

\* where a stable sort by (a, b) => b._score - a._score puts x, coming
\* after the elements of sorted in the input: behind all of no smaller score
InsertPosition(sorted, x) ==
  Cardinality({k \in DOMAIN sorted : sorted[k].score >= x.score}) + 1

\* Array.prototype.sort((a, b) => b._score - a._score), which is stable
RECURSIVE SortByScore(_)
SortByScore(seq) ==
  IF seq = <<>> THEN <<>>
  ELSE LET front == SortByScore(SubSeq(seq, 1, Len(seq) - 1))
           x == seq[Len(seq)]
           at == InsertPosition(front, x)
       IN SubSeq(front, 1, at - 1) \o <<x>> \o SubSeq(front, at, Len(front))

\* topicsToRank = filteredTopics.length > 0 ? filteredTopics : scoredTopics
TopicsToRank(topics, cfg) ==
  LET filteredTopics == Filter(ScoredTopics(topics), cfg)
  IN IF Len(filteredTopics) > 0 THEN filteredTopics ELSE ScoredTopics(topics)

\* maxTopics = Number(analysisConfig.maxTopics ?? <default>)
MaxTopicsOf(cfg, site) == Number(Coalesce(cfg.maxTopics, Num(DefaultMaxTopics(site))))

\* selectedTopics = topicsToRank.sort(...).slice(0, Math.max(1, maxTopics))
SelectedTopics(topics, cfg, site) ==
  LET sorted == SortByScore(TopicsToRank(topics, cfg))
  IN SubSeq(sorted, 1, SliceEnd(MathMax(1, MaxTopicsOf(cfg, site)), Len(sorted)))

\* the whole ranking of one call: it throws when scoring reads a property of
\* a null entry, and returns selectedTopics otherwise
Ranking(topics, cfg, site) ==
  IF \E k \in DOMAIN topics : PropertyReadThrows(topics[k]) THEN Throws
  ELSE Returns(SelectedTopics(topics, cfg, site))

\* the topics the AI's analysis may hold: (novelty, impact), well-formed or
\* with a missing, infinite or non-numeric score, or a null entry
TopicAlphabet ==
  { [name |-> "a", noveltyScore |-> Num(8), impactScore |-> Num(7)],
    [name |-> "b", noveltyScore |-> Num(5), impactScore |-> Num(9)],
    [name |-> "c", noveltyScore |-> Num(7), impactScore |-> Num(6)],
    [name |-> "d", noveltyScore |-> Num(8), impactScore |-> Num(6)],
    [name |-> "e", noveltyScore |-> Undef,  impactScore |-> Num(9)],
    [name |-> "f", noveltyScore |-> Infinity, impactScore |-> Str],
    NullTopic }

TopicLists == UNION {[1 .. n -> TopicAlphabet] : n \in 0 .. MaxTopicList}

\* analysis.topics: a list of topics, or a value that is not an array (an
\* object that wraps one topic)
Analyses ==
  {[isArray |-> TRUE, items |-> list] : list \in TopicLists}
    \cup {[isArray |-> FALSE, items |-> <<topic>>] : topic \in TopicAlphabet \ {NullTopic}}

\* (minNoveltyScore, minImpactScore) of the analysis configuration
ThresholdArgs ==
  { <<Undef, Undef>>, <<Num(6), Num(6)>>, <<Num(6), Num(10)>>, <<NaN, Num(6)>> }

\* analysisConfig.maxTopics
MaxTopicsArgs == {Undef, NaN, Num(-1), Num(0), Num(1), Num(2), Num(5)}

\* generateBlog / generateArticle is called with an analysis and a
\* configuration (the two differ only when maxTopics is not configured)
RkStart(analysis, thresholds, maxTopics, site) ==
  /\ rk.phase = "idle"
  /\ site = "generateArticle" => maxTopics = Undef
  /\ rk' = [phase |-> "asked", analysis |-> analysis, topics |-> TopicsOf(analysis),
            site |-> site, scores |-> <<>>,
            cfg |-> [minNoveltyScore |-> thresholds[1], minImpactScore |-> thresholds[2],
                     maxTopics |-> maxTopics],
            from |-> <<>>, out |-> <<>>]
  /\ UNCHANGED <<regvars, pc, wf, store, reports, fx, inc, main, cw, es, rp>>

\* the ranking runs; analysis.topics itself is left as it is.  out is
\* selectedTopics (.map drops _score), from the input positions it came from.
RkRank ==
  /\ rk.phase = "asked"
  /\ LET ranking == Ranking(rk.topics, rk.cfg, rk.site)
         selected == ranking.value
     IN rk' = IF ranking.threw THEN [rk EXCEPT !.phase = "threw"]
              ELSE [rk EXCEPT !.phase = "ranked",
                              !.from = [k \in DOMAIN selected |-> selected[k].index],
                              !.scores = [k \in DOMAIN selected |-> selected[k].score],
                              !.out = [k \in DOMAIN selected |-> selected[k].topic]]
  /\ UNCHANGED <<regvars, pc, wf, store, reports, fx, inc, main, cw, es, rp>>

\* no call under way: any call may come
RkCall ==
  /\ rk.phase = "idle"
  /\ \E analysis \in Analyses, thresholds \in ThresholdArgs, maxTopics \in MaxTopicsArgs,
        site \in RankSites : RkStart(analysis, thresholds, maxTopics, site)

RankNext ==
  \/ RkCall
  \/ RkRank

RankSpec == Init /\ [][RankNext]_vars

\* ------------------------------------------- executeIncrementalWorkflow
\* createWorkflowResult(success, message, data)
createWorkflowResult(success, message, data) ==
  [success |-> success, message |-> message, data |-> data]

\* ArticleRepository.getAllArticles().length: every stored article, processed
\* or not
getAllArticles(unprocessed, processed) == unprocessed + processed

\* ArticleRepository.getProcessedArticles().length
getProcessedArticles(unprocessed, processed) == processed

\* (mutant) a check that takes an empty repository for "nothing new"
NothingNew_OnlyWhenEmpty(existingArticles, processedMetadata) == existingArticles = 0

\* existingArticles.length === processedMetadata.length
NothingNew(existingArticles, processedMetadata) == existingArticles = processedMetadata

IncStart(blogCount) ==
  [phase |-> "loadConfig", processed |-> inc.processed, blogCount |-> blogCount, i |-> 0,
   existingArticles |-> 0, processedMetadata |-> 0, candidates |-> store, checked |-> FALSE,
   called |-> {}, generatedBlogs |-> 0, caught |-> NULL, settled |-> "pending", result |-> NULL]

\* return value: the async function's promise resolves with it
IncReturn(v, w) == [w EXCEPT !.phase = "done", !.settled = "resolved", !.result = v]

\* (mutant) a catch block that lets the error through to the caller
IncCatch_Rethrows(e, w) == [w EXCEPT !.phase = "done", !.settled = "rejected", !.caught = e]

\* catch (error): return createWorkflowResult(false, '增量更新失败', error)
IncCatch(e, w) ==
  IncReturn(createWorkflowResult(FALSE, "incrementalFailed", e), [w EXCEPT !.caught = e])

IncCalled(name, w) == [w EXCEPT !.called = @ \cup {name}]

\* executeIncrementalWorkflow(blogCount)
IncBegin(blogCount) ==
  /\ inc.phase = "idle"
  /\ inc' = IncStart(blogCount)
  /\ UNCHANGED <<regvars, pc, wf, store, reports, fx, rk, main, cw, es, rp>>

\* const config = await this.loadConfig()
IncLoadConfig(ok) ==
  /\ inc.phase = "loadConfig"
  /\ inc' = IF ok THEN [IncCalled("loadConfig", inc) EXCEPT !.phase = "getAllArticles"]
            ELSE IncCatch("configError", IncCalled("loadConfig", inc))
  /\ UNCHANGED <<regvars, pc, wf, store, reports, fx, rk, main, cw, es, rp>>

\* const existingArticles = await ArticleRepository.getAllArticles()
IncGetAll(ok) ==
  /\ inc.phase = "getAllArticles"
  /\ inc' = IF ok
            THEN [IncCalled("getAllArticles", inc) EXCEPT
                    !.phase = "getProcessedArticles",
                    !.existingArticles = getAllArticles(store, inc.processed)]
            ELSE IncCatch("repositoryError", IncCalled("getAllArticles", inc))
  /\ UNCHANGED <<regvars, pc, wf, store, reports, fx, rk, main, cw, es, rp>>

\* const processedMetadata = await ArticleRepository.getProcessedArticles()
\* and the comparison that follows it
IncGetProcessed(ok) ==
  /\ inc.phase = "getProcessedArticles"
  /\ LET w == IncCalled("getProcessedArticles", inc)
         processedMetadata == getProcessedArticles(store, inc.processed)
         read == [w EXCEPT !.processedMetadata = processedMetadata, !.checked = TRUE]
     IN inc' = IF ~ok THEN IncCatch("repositoryError", w)
               ELSE IF NothingNew(inc.existingArticles, processedMetadata)
               THEN IncReturn(createWorkflowResult(FALSE, "nothingNew", NULL), read)
               ELSE [IncCalled("executeStrategy", read) EXCEPT !.phase = "strategy"]
  /\ UNCHANGED <<regvars, pc, wf, store, reports, fx, rk, main, cw, es, rp>>

\* how one iteration of executeStrategy's loop can end
IncIterationEnds == {"selectThrew", "analysisThrew", "generationThrew", "saveThrew",
                  "markThrew", "generated"}

\* the calls an iteration has made when it ends in a given way
IncIterationCalls(end) ==
  CASE end = "selectThrew" -> {"getUnprocessedArticles"}
    [] end = "analysisThrew" -> {"getUnprocessedArticles", "analyzeArticles"}
    [] end = "generationThrew" -> {"getUnprocessedArticles", "analyzeArticles", "generateBlog"}
    [] end = "saveThrew" ->
         {"getUnprocessedArticles", "analyzeArticles", "generateBlog", "saveJekyllPost"}
    [] OTHER -> {"getUnprocessedArticles", "analyzeArticles", "generateBlog", "saveJekyllPost",
                 "markArticleProcessed"}

\* for (let i = 0; i < count; i++) { try { ... } catch { } }: the loop is over
IncLoopEnd ==
  /\ inc.phase = "strategy"
  /\ inc.i >= inc.blogCount
  /\ inc' = [inc EXCEPT !.phase = "generateReport"]
  /\ UNCHANGED <<regvars, pc, wf, store, reports, fx, rk, main, cw, es, rp>>

\* one iteration of executeStrategy's loop; marked articles leave the
\* unprocessed ones and join the processed ones
IncIteration(end, marked) ==
  /\ inc.phase = "strategy"
  /\ inc.i < inc.blogCount
  /\ LET picked == Min(ArticlesPerBlog, store)
         w == [inc EXCEPT !.i = @ + 1, !.called = @ \cup IncIterationCalls(end)]
     IN IF end = "selectThrew"
        THEN marked = 0 /\ inc' = w /\ store' = store
        ELSE IF picked = 0
        THEN /\ end = "generated" /\ marked = 0
             /\ inc' = [IncCalled("getUnprocessedArticles", inc) EXCEPT
                          !.phase = "generateReport"]
             /\ store' = store
        ELSE /\ marked <= picked
             /\ end \in {"analysisThrew", "generationThrew", "saveThrew"} => marked = 0
             /\ end = "markThrew" => marked < picked
             /\ end = "generated" => marked = picked
             /\ inc' = [w EXCEPT !.processed = @ + marked,
                                 !.generatedBlogs = @ + (IF end = "generated" THEN 1 ELSE 0)]
             /\ store' = store - marked
  /\ UNCHANGED <<regvars, pc, wf, reports, fx, rk, main, cw, es, rp>>

\* const report = await this.generateReport(generatedBlogs, config, start)
IncReport(ok) ==
  /\ inc.phase = "generateReport"
  /\ inc' = IF ok THEN [IncCalled("generateReport", inc) EXCEPT !.phase = "saveJson"]
            ELSE IncCatch("repositoryError", IncCalled("generateReport", inc))
  /\ UNCHANGED <<regvars, pc, wf, store, reports, fx, rk, main, cw, es, rp>>

\* saveReport: the JSON file
IncSaveJson(ok) ==
  /\ inc.phase = "saveJson"
  /\ IF ok THEN /\ inc' = [IncCalled("saveReport", inc) EXCEPT !.phase = "saveHtml"]
                /\ reports' = Append(reports, "json")
     ELSE /\ inc' = IncCatch("saveError", IncCalled("saveReport", inc))
          /\ reports' = reports
  /\ UNCHANGED <<regvars, pc, wf, store, fx, rk, main, cw, es, rp>>

\* saveReport: the HTML file; then return report
IncSaveHtml(ok) ==
  /\ inc.phase = "saveHtml"
  /\ IF ok THEN /\ inc' = IncReturn([success |-> TRUE, message |-> "report",
                                     data |-> inc.generatedBlogs], inc)
                /\ reports' = Append(reports, "html")
     ELSE /\ inc' = IncCatch("saveError", inc)
          /\ reports' = reports
  /\ UNCHANGED <<regvars, pc, wf, store, fx, rk, main, cw, es, rp>>

\* how many stored articles the repository holds as processed at the start
ProcessedCounts == 0 .. MaxArticles

IncInit ==
  /\ RegistryInit /\ WFIdle /\ fx = FxIdle /\ rk = RkIdle /\ main = MainIdle /\ cw = CwIdle
  /\ es = EsIdle({}, {}) /\ rp = RpIdle
  /\ store \in PipeStore
  /\ \E processed \in ProcessedCounts : inc = IncIdle(processed)

IncNext ==
  \/ \E blogCount \in 0 .. MaxBlogs : IncBegin(blogCount)
  \/ \E ok \in BOOLEAN : IncLoadConfig(ok)
  \/ \E ok \in BOOLEAN : IncGetAll(ok)
  \/ \E ok \in BOOLEAN : IncGetProcessed(ok)
  \/ \E end \in IncIterationEnds, marked \in 0 .. ArticlesPerBlog : IncIteration(end, marked)
  \/ IncLoopEnd
  \/ \E ok \in BOOLEAN : IncReport(ok)
  \/ \E ok \in BOOLEAN : IncSaveJson(ok)
  \/ \E ok \in BOOLEAN : IncSaveHtml(ok)

IncSpec == IncInit /\ [][IncNext]_vars

\* ------------------------------------------------ executeCleanupWorkflow
\* return value: the async function's promise resolves with it
CwReturn(v, w) == [w EXCEPT !.phase = "done", !.settled = "resolved", !.result = v]

\* catch (error): return createWorkflowResult(false, '系统清理失败', error)
CwCatch(e, w) ==
  CwReturn(createWorkflowResult(FALSE, "cleanupFailed", e), [w EXCEPT !.caught = e])

\* executeCleanupWorkflow() up to its first await
CwBegin ==
  /\ cw.phase = "idle"
  /\ cw' = [cw EXCEPT !.phase = "cleanupInvalidFiles"]
  /\ UNCHANGED <<regvars, pc, wf, store, reports, fx, rk, inc, main, es, rp>>

\* await StorageManager.cleanupInvalidFiles()
CwCleanup(ok) ==
  /\ cw.phase = "cleanupInvalidFiles"
  /\ cw' = IF ok THEN [cw EXCEPT !.phase = "getStorageStats"] ELSE CwCatch("storageError", cw)
  /\ UNCHANGED <<regvars, pc, wf, store, reports, fx, rk, inc, main, es, rp>>

\* const stats = await StorageManager.getStorageStats(); then the success result
CwStats(ok) ==
  /\ cw.phase = "getStorageStats"
  /\ cw' = IF ok THEN CwReturn(createWorkflowResult(TRUE, "cleanupDone", "stats"), cw)
            ELSE CwCatch("statsError", cw)
  /\ UNCHANGED <<regvars, pc, wf, store, reports, fx, rk, inc, main, es, rp>>

\* ------------------------------------------------- the five workflow calls
\* no workflow function called yet
NoCallYet == pc = "idle" /\ inc.phase = "idle" /\ cw.phase = "idle"

\* one invocation of the command line or of an HTTP route: it calls one of
\* the five workflow functions, chosen by the command or the route, and a
\* client of the task-backed routes may call a wrapper once more with an id
\* that is unknown or in use
ApiNext ==
  \/ /\ NoCallYet
     /\ \E kind \in Kinds, blogCount \in 0 .. MaxBlogs, callback \in BOOLEAN :
          WFBegin(kind, blogCount, callback, ArticlesPerBlog)
  \/ /\ inc.phase = "idle" /\ cw.phase = "idle"
     /\ \E taskId \in 1 .. nextTaskId : WFCallAgain(taskId)
  \/ \E ok \in BOOLEAN : WFLoadConfig(ok)
  \/ \E n \in 0 .. MaxArticles : WFFetch(n)
  \/ \E ok \in BOOLEAN : WFStore(ok)
  \/ \E ok \in BOOLEAN : WFSelect(ok)
  \/ \E ok \in BOOLEAN : WFAnalyze(ok)
  \/ \E ok \in BOOLEAN : WFGenerate(ok)
  \/ \E env \in ImageEnvs : WFImage(env)
  \/ \E ok \in BOOLEAN : WFSave(ok)
  \/ \E ok \in BOOLEAN, marked \in 0 .. ArticlesPerBlog : WFMark(ok, marked)
  \/ \E ok \in BOOLEAN : WFReport(ok)
  \/ \E ok \in BOOLEAN : WFSaveJson(ok)
  \/ \E ok \in BOOLEAN : WFSaveHtml(ok)
  \/ WFCancel
  \/ /\ NoCallYet
     /\ \E blogCount \in 0 .. MaxBlogs : IncBegin(blogCount)
  \/ \E ok \in BOOLEAN : IncLoadConfig(ok)
  \/ \E ok \in BOOLEAN : IncGetAll(ok)
  \/ \E ok \in BOOLEAN : IncGetProcessed(ok)
  \/ \E end \in IncIterationEnds, marked \in 0 .. ArticlesPerBlog : IncIteration(end, marked)
  \/ IncLoopEnd
  \/ \E ok \in BOOLEAN : IncReport(ok)
  \/ \E ok \in BOOLEAN : IncSaveJson(ok)
  \/ \E ok \in BOOLEAN : IncSaveHtml(ok)
  \/ NoCallYet /\ CwBegin
  \/ \E ok \in BOOLEAN : CwCleanup(ok)
  \/ \E ok \in BOOLEAN : CwStats(ok)

ApiSpec == WFInit /\ [][ApiNext]_vars

\* ------------------------------------- executeStrategy, article by article
\* ArticleRepository.getArticleById(id): the stored article with that id,
\* processed or not, or nothing
getArticleById(stored, id) == IF id \in stored THEN {id} ELSE {}

\* Promise.all(options.selectedArticles.map(getArticleById)).filter(article => article)
SelectedArticles(w) ==
  UNION {getArticleById(w.unprocessed \cup w.processed, id) : id \in w.selectedArticles}

\* ArticleRepository.getUnprocessedArticles(limit): limit of the unprocessed
\* articles, or all of them when there are fewer; which ones is the repository's choice
getUnprocessedArticles(unprocessed, limit) ==
  {S \in SUBSET unprocessed : Cardinality(S) = Min(limit, Cardinality(unprocessed))}

\* the selections step 1 of an iteration can make
Selections(w) ==
  IF w.selectedArticles # {} THEN {SelectedArticles(w)}
  ELSE getUnprocessedArticles(w.unprocessed, w.articlesPerBlog)

\* i++ and the loop condition i < count
EsNextIteration(w) ==
  [w EXCEPT !.i = @ + 1, !.unprocessedArticles = {},
            !.phase = IF w.i + 1 < w.count THEN "select" ELSE "done"]

EsStep(newEs) ==
  /\ es' = newEs
  /\ UNCHANGED <<regvars, pc, wf, store, reports, fx, rk, inc, main, cw, rp>>

\* executeStrategy(config, count, options) up to the first await of its loop
EsBegin(count, selectedArticles, articlesPerBlog) ==
  /\ es.phase = "idle"
  /\ EsStep([es EXCEPT !.count = count, !.selectedArticles = selectedArticles,
                       !.articlesPerBlog = articlesPerBlog,
                       !.phase = IF 0 < count THEN "select" ELSE "done"])

\* step 1: the selected articles, or the next unprocessed ones; none ends the loop
EsSelect(ok) ==
  /\ es.phase = "select"
  /\ IF ~ok THEN EsStep(EsNextIteration(es))
     ELSE \E picked \in Selections(es) :
            EsStep(IF picked = {} THEN [es EXCEPT !.phase = "done"]
                   ELSE [es EXCEPT !.phase = "analyze", !.unprocessedArticles = picked])

\* step 2: analyzeArticles
EsAnalyze(ok) ==
  /\ es.phase = "analyze"
  /\ EsStep(IF ok THEN [es EXCEPT !.phase = "generate"] ELSE EsNextIteration(es))

\* steps 3 and 4: generateBlog, then generateBlogImage, which hands back a
\* path or null
EsGenerate(ok) ==
  /\ es.phase = "generate"
  /\ EsStep(IF ok THEN [es EXCEPT !.phase = "save"] ELSE EsNextIteration(es))

\* step 5: the post is written to the output directory
EsSave(ok) ==
  /\ es.phase = "save"
  /\ EsStep(IF ok THEN [es EXCEPT !.phase = "mark", !.posts = Append(@, es.unprocessedArticles)]
            ELSE EsNextIteration(es))

\* step 6: Promise.all of markArticleProcessed over the iteration's articles,
\* then generatedBlogs.push; when a mark fails, the others may have been made
EsMark(ok, marked) ==
  /\ es.phase = "mark"
  /\ marked \subseteq es.unprocessedArticles
  /\ ok <=> marked = es.unprocessedArticles
  /\ LET w == [es EXCEPT !.unprocessed = @ \ marked, !.processed = @ \cup marked]
     IN EsStep(EsNextIteration(
          IF ok THEN [w EXCEPT !.generatedBlogs = Append(@, [i |-> es.i, articles |-> marked])]
          ELSE w))

EsInit ==
  /\ RegistryInit /\ WFIdle /\ store = 0
  /\ fx = FxIdle /\ rk = RkIdle /\ inc = IncIdle(0) /\ main = MainIdle /\ cw = CwIdle
  /\ rp = RpIdle
  /\ \E unprocessed \in SUBSET Articles : \E processed \in SUBSET (Articles \ unprocessed) :
       es = EsIdle(unprocessed, processed)

EsNext ==
  \/ \E count \in 0 .. MaxCount, selectedArticles \in SUBSET Articles,
        articlesPerBlog \in 1 .. MaxStored :
       EsBegin(count, selectedArticles, articlesPerBlog)
  \/ \E ok \in BOOLEAN : EsSelect(ok)
  \/ \E ok \in BOOLEAN : EsAnalyze(ok)
  \/ \E ok \in BOOLEAN : EsGenerate(ok)
  \/ \E ok \in BOOLEAN : EsSave(ok)
  \/ \E ok \in BOOLEAN, marked \in SUBSET Articles : EsMark(ok, marked)

EsSpec == EsInit /\ [][EsNext]_vars

\* ------------------------------------------------------------- saveReport
\* the pipeline runs that save a report
Pipelines == 1 .. MaxPipelines

\* saveHTMLReport(report, reportDir, timestamp): the timestamp saveReport took
HtmlTimestamp(r) == rp.run[r].timestamp

\* `report-${timestamp}.json` and `report-${timestamp}.html`
ReportName(timestamp, ext) == <<timestamp, ext>>

\* fs.writeFile(path, data) by run r: the file holds r's report, whatever it held
WriteFile(w, name, r) ==
  [w EXCEPT !.files = With(@, name, r),
            !.lost = @ \cup (IF name \in DOMAIN w.files /\ w.files[name] # r
                             THEN {w.files[name]} ELSE {})]

RpStep(newRp) ==
  /\ rp' = newRp
  /\ UNCHANGED <<regvars, pc, wf, store, reports, fx, rk, inc, main, cw, es>>

\* saveReport(report) of run r up to await fs.mkdir
RpBegin(r) ==
  /\ rp.run[r].phase = "idle"
  /\ RpStep([rp EXCEPT !.run[r].phase = "mkdir"])

\* mkdir has settled: const timestamp = Date.now(), and the JSON file's write
\* is under way
RpMkdir(r, ok) ==
  /\ rp.run[r].phase = "mkdir"
  /\ RpStep(IF ok THEN [rp EXCEPT !.run[r].phase = "json", !.run[r].timestamp = rp.clock]
            ELSE [rp EXCEPT !.run[r].phase = "failed"])

\* await fs.writeFile(jsonPath, ...), then saveHTMLReport's write is under way
RpWriteJson(r, ok) ==
  /\ rp.run[r].phase = "json"
  /\ RpStep(IF ok
            THEN [WriteFile(rp, ReportName(rp.run[r].timestamp, "json"), r)
                    EXCEPT !.run[r].phase = "html", !.run[r].names = @ \cup {ReportName(rp.run[r].timestamp, "json")}]
            ELSE [rp EXCEPT !.run[r].phase = "failed"])

\* await fs.writeFile(htmlPath, html)
RpWriteHtml(r, ok) ==
  /\ rp.run[r].phase = "html"
  /\ RpStep(IF ok
            THEN [WriteFile(rp, ReportName(HtmlTimestamp(r), "html"), r)
                    EXCEPT !.run[r].phase = "done", !.run[r].names = @ \cup {ReportName(HtmlTimestamp(r), "html")}]
            ELSE [rp EXCEPT !.run[r].phase = "failed"])

\* a millisecond passes
RpTick ==
  /\ rp.clock < MaxClock
  /\ RpStep([rp EXCEPT !.clock = @ + 1])

\* pipeline runs started by requests of the HTTP layer, which does not await
\* a run before it accepts the next request, reach saveReport in any order
RpNext ==
  \/ \E r \in Pipelines : RpBegin(r)
  \/ \E r \in Pipelines, ok \in BOOLEAN : RpMkdir(r, ok)
  \/ \E r \in Pipelines, ok \in BOOLEAN : RpWriteJson(r, ok)
  \/ \E r \in Pipelines, ok \in BOOLEAN : RpWriteHtml(r, ok)
  \/ RpTick

RpSpec == Init /\ [][RpNext]_vars

\* ------------------------------------------------------- index.js main()
\* the articles a feed can carry, by guid
Guids == 1 .. MaxGuids

\* the runs of main() followed
Runs == 1 .. MaxRuns

\* return, or process.exit(1) from the catch block: the run is over
MainEnds(code, m) == [m EXCEPT !.phase = "idle", !.exit = code]

\* let processed = []; try { processed = JSON.parse(await fs.readFile(...)) }
\* catch { ... }: the guids read, none when the read or the parse fails
ReadProcessed(file, readOk) == IF file.exists /\ readOk THEN file.guids ELSE {}

\* fs.readFile of a file that does not exist fails
CanRead(file, readOk) == readOk => file.exists

\* main(): the runtime directories and config.json
MainBegin(ok) ==
  /\ main.phase = "idle"
  /\ main.run < MaxRuns
  /\ LET m == [main EXCEPT !.run = @ + 1, !.articles = {}, !.newArticles = {}, !.exit = NULL]
     IN main' = IF ok THEN [m EXCEPT !.phase = "fetch"] ELSE MainEnds(1, m)
  /\ UNCHANGED <<regvars, pc, wf, store, reports, fx, rk, inc, cw, es, rp>>

\* const articles = await fetchRSSFeeds(config.rssFeeds, 3)
MainFetch(articles) ==
  /\ main.phase = "fetch"
  /\ main' = IF articles = {} THEN MainEnds(0, main)
             ELSE [main EXCEPT !.phase = "filter", !.articles = articles]
  /\ UNCHANGED <<regvars, pc, wf, store, reports, fx, rk, inc, cw, es, rp>>

\* const newArticles = await filterProcessedArticles(articles); when
\* processed.json cannot be read and parsed the catch block writes [] to it
MainFilter(readOk, writeOk) ==
  /\ main.phase = "filter"
  /\ CanRead(main.file, readOk)
  /\ readOk => writeOk
  /\ LET processed == ReadProcessed(main.file, readOk)
         newArticles == main.articles \ processed
         m == IF readOk THEN main
              ELSE [main EXCEPT !.file = [exists |-> TRUE, guids |-> {}]]
     IN main' = IF ~writeOk THEN MainEnds(1, main)
                ELSE IF newArticles = {} THEN MainEnds(0, m)
                ELSE [m EXCEPT !.phase = "analyze", !.newArticles = newArticles]
  /\ UNCHANGED <<regvars, pc, wf, store, reports, fx, rk, inc, cw, es, rp>>

\* const analysisResult = await analyzeContent(newArticles, ...)
MainAnalyze(ok) ==
  /\ main.phase = "analyze"
  /\ LET m == [main EXCEPT !.analysed[main.run] = main.newArticles]
     IN main' = IF ok THEN [m EXCEPT !.phase = "generate"] ELSE MainEnds(1, m)
  /\ UNCHANGED <<regvars, pc, wf, store, reports, fx, rk, inc, cw, es, rp>>

\* const article = await generateArticle(analysisResult, ...)
MainGenerate(ok) ==
  /\ main.phase = "generate"
  /\ main' = IF ok THEN [main EXCEPT !.phase = "image"] ELSE MainEnds(1, main)
  /\ UNCHANGED <<regvars, pc, wf, store, reports, fx, rk, inc, cw, es, rp>>

\* const imagePath = await generateImage(article.imagePrompt, ...)
MainImage(env) ==
  /\ main.phase = "image"
  /\ main' = IF generateImage(env).threw THEN MainEnds(1, main)
             ELSE [main EXCEPT !.phase = "save"]
  /\ UNCHANGED <<regvars, pc, wf, store, reports, fx, rk, inc, cw, es, rp>>

\* const savedPath = await saveJekyllPost(jekyllPost, config.output.postsDir)
MainSave(ok) ==
  /\ main.phase = "save"
  /\ main' = IF ok THEN [main EXCEPT !.phase = "mark", !.saved = @ \cup {main.run}]
             ELSE MainEnds(1, main)
  /\ UNCHANGED <<regvars, pc, wf, store, reports, fx, rk, inc, cw, es, rp>>

\* await markAsProcessed(newArticles): a failed read is ignored, and the
\* file is rewritten with what was read plus the new guids; then main returns
MainMark(readOk, writeOk) ==
  /\ main.phase = "mark"
  /\ CanRead(main.file, readOk)
  /\ LET processed == ReadProcessed(main.file, readOk)
     IN main' = IF ~writeOk THEN MainEnds(1, main)
                ELSE MainEnds(0, [main EXCEPT
                       !.file = [exists |-> TRUE, guids |-> processed \cup main.newArticles],
                       !.recorded = @ \cup main.newArticles,
                       !.completed = @ \cup {main.run}])
  /\ UNCHANGED <<regvars, pc, wf, store, reports, fx, rk, inc, cw, es, rp>>

MainNext ==
  \/ \E ok \in BOOLEAN : MainBegin(ok)
  \/ \E articles \in SUBSET Guids : MainFetch(articles)
  \/ \E readOk \in BOOLEAN, writeOk \in BOOLEAN : MainFilter(readOk, writeOk)
  \/ \E ok \in BOOLEAN : MainAnalyze(ok)
  \/ \E ok \in BOOLEAN : MainGenerate(ok)
  \/ \E env \in ImageEnvs : MainImage(env)
  \/ \E ok \in BOOLEAN : MainSave(ok)
  \/ \E readOk \in BOOLEAN, writeOk \in BOOLEAN : MainMark(readOk, writeOk)

MainSpec == Init /\ [][MainNext]_vars

\* the ids callers pass: every id handed out so far and the next, unknown one
CallIds == 1 .. nextTaskId

Next ==
  \/ Tick
  \/ \E type \in TaskTypes : CreateTask(type)
  \/ \E id \in CallIds : StartTask(id)
  \/ \E id \in CallIds, p \in ProgressArgs, s \in StepArgs, m \in MessageArgs :
       UpdateProgress(id, p, s, m)
  \/ \E id \in CallIds : CancelTask(id)
  \/ \E id \in CallIds, v \in ResultVals : ExecutorResolve(id, v)
  \/ \E id \in CallIds, e \in ErrorVals : ExecutorReject(id, e)
  \/ \E maxAge \in MaxAgeArgs : CleanupTasks(maxAge)

Spec == Init /\ [][Next]_vars

TypeOK ==
  /\ DOMAIN tasks \subseteq issued
  /\ \A i \in DOMAIN tasks : tasks[i].status \in TaskStatus
  /\ calls \in 0 .. MaxCalls

\* ------------------------------------------------------------------ claims
\* the edges of the status state machine
StatusEdges ==
  {<<PENDING, IN_PROGRESS>>, <<IN_PROGRESS, COMPLETED>>,
   <<IN_PROGRESS, FAILED>>, <<IN_PROGRESS, CANCELLED>>}

\* C1: a task's status changes only along PENDING->IN_PROGRESS,
\* IN_PROGRESS->COMPLETED, IN_PROGRESS->FAILED and IN_PROGRESS->CANCELLED;
\* in particular no status change leaves COMPLETED, FAILED or CANCELLED.
C1_StatusOnlyAlongEdges ==
  [][\A id \in DOMAIN tasks :
       (id \in DOMAIN tasks' /\ tasks'[id].status # tasks[id].status)
         => <<tasks[id].status, tasks'[id].status>> \in StatusEdges]_vars

\* C2: once a task is terminal none of its fields changes afterwards (so it
\* enters a terminal status at most once); only cleanupTasks may remove it.
C2_TerminalImmutable ==
  [][\A id \in DOMAIN tasks :
       tasks[id].status \in Terminal
         => /\ id \in DOMAIN tasks' => tasks'[id] = tasks[id]
            /\ id \notin DOMAIN tasks' => ret'.op = "cleanupTasks"]_vars

\* C3: when the executor of a started task resolved with v, the task is
\* COMPLETED with result v, progress 100, endTime and duration recorded, and
\* exactly one taskCompleted event was emitted for it.
C3_ResolveCompletes ==
  \A id \in DOMAIN exec :
    exec[id].state = "resolved"
      => /\ emitCount[id]["taskCompleted"] = 1
         /\ id \in DOMAIN tasks =>
              /\ tasks[id].status = COMPLETED
              /\ tasks[id].result = exec[id].value
              /\ tasks[id].progress = 100
              /\ tasks[id].endTime # NullTime
              /\ tasks[id].duration = tasks[id].endTime - tasks[id].startTime

\* a task whose executor resolved after progress below 100 had been reported
C3_Witness ==
  \E id \in DOMAIN tasks :
    /\ exec[id].state = "resolved"
    /\ ret.op = "resolve" /\ ret.id = id
    /\ events = <<Ev("taskCompleted", id)>>
    /\ tasks[id].steps # <<>>
    /\ tasks[id].progress = 100

\* C4: when the executor of a started task rejected with e, the task is
\* FAILED with error e, result still null, endTime and duration recorded, and
\* the promise startTask returned is rejected with the same e.
C4_RejectFails ==
  \A id \in DOMAIN exec :
    exec[id].state = "rejected"
      => /\ promise[id] = Settled("rejected", exec[id].value)
         /\ emitCount[id]["taskFailed"] = 1
         /\ id \in DOMAIN tasks =>
              /\ tasks[id].status = FAILED
              /\ tasks[id].error = exec[id].value
              /\ tasks[id].result = NULL
              /\ tasks[id].endTime # NullTime
              /\ tasks[id].duration = tasks[id].endTime - tasks[id].startTime

\* a task whose executor has just rejected, a clock tick after it was started
C4_Witness ==
  \E id \in DOMAIN tasks :
    /\ exec[id].state = "rejected"
    /\ ret.op = "reject" /\ ret.id = id
    /\ promise[id].state = "rejected"
    /\ tasks[id].duration > 0

\* C5: startTask on a task that is not PENDING fails with an error naming the
\* offending status, invokes no executor, emits no event and leaves every
\* field of the task unchanged.
C5_StartNonPendingRejected ==
  [][\A id \in DOMAIN tasks :
       (ret'.op = "startTask" /\ ret'.id = id /\ tasks[id].status # PENDING)
         => /\ ret'.err = "BadStatus" /\ ret'.val = tasks[id].status
            /\ tasks' = tasks
            /\ events' = <<>>
            /\ UNCHANGED <<exec, invoked, promise, emitCount>>]_vars

\* a second startTask on a task that is IN_PROGRESS was refused
C5_Witness ==
  /\ ret.op = "startTask" /\ ret.err = "BadStatus" /\ ret.val = IN_PROGRESS
  /\ ret.id \in DOMAIN tasks
  /\ tasks[ret.id].status = IN_PROGRESS
  /\ invoked[ret.id] = 1

\* C6: operations on an id that is not in the registry (never created, or
\* evicted) create and modify no task: startTask fails with a not-found error
\* without invoking an executor, cancelTask and updateProgress do nothing and
\* emit no event, and getTask and getTaskStatus return null.
C6_UnknownIdUntouched ==
  /\ [](\A id \in TaskIds : id \notin DOMAIN tasks
          => getTask(id) = NULL /\ getTaskStatus(id) = NULL)
  /\ [][\A id \in TaskIds :
          (id \notin DOMAIN tasks /\ ret'.id = id
             /\ ret'.op \in {"startTask", "cancelTask", "updateProgress"})
            => /\ tasks' = tasks
               /\ events' = <<>>
               /\ UNCHANGED <<exec, invoked, promise, emitCount>>
               /\ ret'.op = "startTask" => ret'.err = "NotFound"]_vars

\* startTask has just been refused on the id of an evicted task
C6_Witness ==
  /\ ret.op = "startTask" /\ ret.err = "NotFound"
  /\ ret.id \in issued /\ ret.id \notin DOMAIN tasks
  /\ getTaskStatus(ret.id) = NULL

\* C7: createTask returns an id that no earlier createTask returned (also
\* after cleanupTasks evicted tasks); the new record is PENDING with progress
\* 0, no steps and null startTime, endTime, result and error; no existing
\* task is changed.
C7_CreateFreshPending ==
  [][ret'.op = "createTask"
       => /\ ret'.id \notin issued
          /\ ret'.id \in DOMAIN tasks'
          /\ LET t == tasks'[ret'.id] IN
               /\ t.id = ret'.id
               /\ t.status = PENDING /\ t.progress = 0 /\ t.steps = <<>>
               /\ t.startTime = NullTime /\ t.endTime = NullTime
               /\ t.result = NULL /\ t.error = NULL
          /\ DOMAIN tasks' = (DOMAIN tasks) \cup {ret'.id}
          /\ \A j \in DOMAIN tasks : tasks'[j] = tasks[j]]_vars

\* a task was created after an earlier one had been evicted
C7_Witness ==
  /\ ret.op = "createTask"
  /\ \E j \in issued : j # ret.id /\ j \notin DOMAIN tasks
  /\ tasks[ret.id].status = PENDING

\* C8: updateProgress on a task that is not IN_PROGRESS leaves the task
\* unchanged and emits no taskProgress event.
C8_StaleProgressIgnored ==
  [][\A id \in DOMAIN tasks :
       (ret'.op = "updateProgress" /\ ret'.id = id /\ tasks[id].status # IN_PROGRESS)
         => tasks' = tasks /\ events' = <<>>]_vars

\* the executor of a cancelled task is still running and has reported progress
C8_Witness ==
  /\ ret.op = "updateProgress"
  /\ ret.id \in DOMAIN tasks
  /\ tasks[ret.id].status = CANCELLED
  /\ exec[ret.id].state = "running"
  /\ events = <<>>

\* C9: cancelTask on a PENDING, COMPLETED, FAILED or CANCELLED task throws
\* nothing, changes no field and emits no event; a PENDING task on which
\* cancelTask was called is started by the startTask that follows.
C9_CancelOnlyInProgress ==
  /\ [][\A id \in DOMAIN tasks :
          (ret'.op = "cancelTask" /\ ret'.id = id /\ tasks[id].status # IN_PROGRESS)
            => tasks' = tasks /\ events' = <<>> /\ ret'.err = NULL]_vars
  /\ [][\A id \in DOMAIN tasks :
          (ret.op = "cancelTask" /\ ret.id = id /\ tasks[id].status = PENDING
             /\ ret'.op = "startTask" /\ ret'.id = id)
            => tasks'[id].status = IN_PROGRESS /\ ret'.err = NULL]_vars

\* cancelTask has just been called on a PENDING task
C9_Witness ==
  /\ ret.op = "cancelTask"
  /\ ret.id \in DOMAIN tasks
  /\ tasks[ret.id].status = PENDING
  /\ events = <<>>

\* C10: cancelTask on an IN_PROGRESS task sets its status to CANCELLED and
\* emits one taskCancelled event, without touching the executor; the
\* executor's remaining steps still run until the executor ends.
C10_CancelDoesNotStopPipeline ==
  /\ [][(ret'.op = "cancelTask" /\ Id \in DOMAIN tasks /\ tasks[Id].status = IN_PROGRESS)
          => /\ tasks'[Id].status = CANCELLED
             /\ events' = <<Ev("taskCancelled", Id)>>
             /\ emitCount'[Id]["taskCancelled"] = 1
             /\ UNCHANGED <<pc, wf, exec, promise>>]_vars
  /\ (/\ pc \in {"loadConfig", "fetch", "store", "select", "analyze", "generate",
                 "image", "save", "mark", "report", "saveJson", "saveHtml"}
      /\ Id \in DOMAIN tasks /\ tasks[Id].status = CANCELLED)
       ~> (pc = "done" /\ exec[Id].state \in {"resolved", "rejected"})

\* the executor has just written the report's JSON file, after having called
\* the strategy and the generation, on a task that is cancelled
C10_Witness ==
  /\ ret.op = "executor"
  /\ pc = "saveHtml"
  /\ reports = <<"json">>
  /\ Id \in DOMAIN tasks
  /\ tasks[Id].status = CANCELLED
  /\ emitCount[Id]["taskCancelled"] = 1
  /\ {"executeStrategy", "generateBlog", "saveReport"} \subseteq wf.called

\* the executor is past executeStrategy
StrategyReturned ==
  /\ pc \in {"report", "saveJson", "saveHtml", "done"}
  /\ "executeStrategy" \in wf.called

\* the iterations that ran to their end: attempted, did not throw, and did
\* not leave the loop for want of unprocessed articles
Succeeded ==
  ((0 .. (wf.attempts - 1)) \ wf.threw)
     \ (IF wf.stopped THEN {wf.attempts - 1} ELSE {})

AfterFetchCalls ==
  {"saveArticle", "executeStrategy", "getUnprocessedArticles", "analyzeArticles",
   "generateBlog", "generateBlogImage", "savePost", "markArticleProcessed",
   "generateReport", "saveReport"}

\* C12: when the full pipeline's fetch returns no article, the run ends with
\* the "no articles fetched" failure result, nothing is stored, analysed,
\* generated or reported, and the task ends COMPLETED, not FAILED.
C12_EmptyFetchEndsRun ==
  (wf.kind = "full" /\ "fetchRSSFeeds" \in wf.called /\ wf.fetched = 0 /\ pc # "fetch")
    => /\ pc = "done"
       /\ wf.result = "noArticles"
       /\ exec[Id] = Settled("resolved", "noArticles")
       /\ tasks[Id].status = COMPLETED
       /\ tasks[Id].result = "noArticles"
       /\ tasks[Id].error = NULL
       /\ wf.called \cap AfterFetchCalls = {}
       /\ ~wf.report.built
       /\ reports = <<>>
       /\ emitCount[Id]["taskFailed"] = 0

\* a full run whose fetch returned nothing has ended, its task COMPLETED
C12_Witness ==
  /\ wf.kind = "full"
  /\ pc = "done"
  /\ "fetchRSSFeeds" \in wf.called
  /\ wf.fetched = 0
  /\ wf.result = "noArticles"
  /\ tasks[Id].status = COMPLETED

\* the analysis and generation collaborators of one iteration
IterationCalls ==
  {"getUnprocessedArticles", "analyzeArticles", "generateBlog", "generateBlogImage",
   "savePost", "markArticleProcessed"}

\* a run that only fetches: executeFetchWorkflow, or executeFullWorkflow(0)
FetchOnly ==
  \/ wf.kind = "fetch"
  \/ wf.kind = "full" /\ wf.blogCount = 0

\* C13: a fetch-only run never calls the analysis or generation
\* collaborators, and every report it builds has generatedBlogs = 0,
\* however many articles were fetched.
C13_FetchOnlyGeneratesNothing ==
  FetchOnly =>
    /\ wf.called \cap IterationCalls = {}
    /\ wf.blogs = <<>>
    /\ wf.kind = "fetch" => "executeStrategy" \notin wf.called
    /\ wf.report.built => (wf.report.generatedBlogs = 0 /\ wf.report.blogs = <<>>)

\* the fetch pipeline has fetched and stored two articles and ended with a
\* report of zero generated articles
C13_Witness ==
  /\ wf.kind = "fetch"
  /\ pc = "done"
  /\ wf.fetched = 2
  /\ wf.stored = 2
  /\ wf.report.built
  /\ wf.report.generatedBlogs = 0
  /\ wf.result = "fetchSucceeded"
  /\ reports = <<"json", "html">>

\* the first iteration of executeStrategy found no unprocessed article
FirstIterationEmpty ==
  /\ StrategyReturned
  /\ wf.stopped
  /\ wf.attempts = 1

\* C14: when the first iteration finds no unprocessed article, no analysis
\* or generation call is made, the task does not fail for it, and the run's
\* result is a "nothing to process" result, not the report of a normal run.
C14_NothingToProcessResult ==
  FirstIterationEmpty =>
    /\ wf.called \cap {"analyzeArticles", "generateBlog", "generateBlogImage"} = {}
    /\ tasks[Id].status = FAILED => tasks[Id].error \in {"reportError", "saveError"}
    /\ (pc = "done" /\ tasks[Id].status = COMPLETED)
         => (wf.result # "report" /\ ~wf.report.success)

\* C15: when loading the configuration or writing either file of the report
\* fails, no later step runs, the task ends FAILED with that error as
\* task.error, and it stays FAILED.
C15_FatalFailures ==
  /\ [][\A e \in {"configError", "saveError"} :
          (/\ pc # "done" /\ pc' = "done"
           /\ \/ e = "configError" /\ pc = "loadConfig"
              \/ e = "saveError" /\ pc \in {"saveJson", "saveHtml"} /\ reports' = reports)
            => /\ tasks'[Id].status = FAILED
               /\ tasks'[Id].error = e
               /\ exec'[Id] = Settled("rejected", e)
               /\ events' = <<Ev("taskFailed", Id)>>
               /\ wf'.called = wf.called
               /\ tasks'[Id].progress = tasks[Id].progress
               /\ wf'.result = "workflowFailed"]_vars
  /\ [][(pc = "done" /\ tasks[Id].status = FAILED) => tasks'[Id] = tasks[Id]]_vars
  /\ [](pc = "done" => (tasks[Id].status = FAILED <=> exec[Id].state = "rejected"))

\* the analyze-only pipeline has written the report's JSON file, failed to
\* write the HTML file, and ended FAILED with that error
C15_Witness ==
  /\ wf.kind = "analyze"
  /\ pc = "done"
  /\ reports = <<"json">>
  /\ tasks[Id].status = FAILED
  /\ tasks[Id].error = "saveError"
  /\ tasks[Id].progress < 100

\* what fetchRSSFeeds owes for feeds lo .. hi: the items of the feeds that
\* did not fail, in feed order
RECURSIVE ExpectedArticles(_, _, _)
ExpectedArticles(f, lo, hi) ==
  IF lo > hi THEN <<>>
  ELSE (IF lo \in f.failed THEN <<>> ELSE FeedItems(lo, f.feeds[lo], f.limit))
         \o ExpectedArticles(f, lo + 1, hi)

\* C16: whichever feeds fail to be fetched (after all retries) or parsed,
\* fetchRSSFeeds does not throw; it resolves with exactly the items of the
\* feeds that succeeded, in feed order, a failed feed contributing none.
C16_PartialFetchFailure ==
  /\ fx.phase # "rejected"
  /\ fx.phase = "running" => fx.all = ExpectedArticles(fx, 1, fx.lo - 1)
  /\ fx.phase = "resolved"
       => /\ fx.all = ExpectedArticles(fx, 1, Len(fx.feeds))
          /\ fx.failed \subseteq 1 .. Len(fx.feeds)
          /\ \A k \in DOMAIN fx.all : fx.all[k][1] \notin fx.failed

\* three feeds in two batches, the second feed failed though its document
\* holds items: the call resolved with the items of the first and the third
C16_Witness ==
  /\ fx.phase = "resolved"
  /\ Len(fx.feeds) = 3
  /\ fx.concurrency = 2
  /\ fx.failed = {2}
  /\ fx.feeds[2] > 0
  /\ fx.limit = 3
  /\ fx.all = << <<1, 1>>, <<1, 2>>, <<3, 1>>, <<3, 2>> >>

\* C17: the image step never fails an iteration: without a prompt, without
\* an API key, when the image directory cannot be prepared or when the image
\* API call throws, it yields null and the iteration goes on to save the
\* article; the article is then counted as generated whatever the image.
C17_ImageNeverFailsIteration ==
  /\ [][(pc = "image" /\ pc' # "image")
          => /\ pc' = "save"
             /\ wf'.threw = wf.threw
             /\ wf'.i = wf.i
             /\ "savePost" \in wf'.called
             /\ wf'.imageWhy \in {"noPrompt", "dirFailed", "noKey", "apiThrew"}
                  => wf'.image = NULL
             /\ wf'.imageWhy = "generated" <=> wf'.image # NULL]_vars
  /\ [][(pc = "mark" /\ store' = store - wf.picked)
          => wf'.blogs = Append(wf.blogs, [iteration |-> wf.i,
                                           processedArticles |-> wf.picked,
                                           imagePath |-> wf.image])]_vars

\* the image directory could not be prepared: the image is null, the
\* article has been saved all the same and its articles are being marked
C17_Witness ==
  /\ pc = "mark"
  /\ wf.imageWhy = "dirFailed"
  /\ wf.image = NULL
  /\ wf.threw = {}
  /\ {"generateBlogImage", "savePost", "markArticleProcessed"} \subseteq wf.called

\* the ranking has run
Ranked == rk.phase = "ranked"

\* a topic's score: noveltyScore + impactScore
ScoreAt(k) == Novelty(rk.topics[k]) + Impact(rk.topics[k])

\* the positions of the topics that meet both configured thresholds
Passing ==
  {k \in DOMAIN rk.topics :
     /\ Geq(Novelty(rk.topics[k]), Number(Coalesce(rk.cfg.minNoveltyScore, Num(0))))
     /\ Geq(Impact(rk.topics[k]), Number(Coalesce(rk.cfg.minImpactScore, Num(0))))}

\* the positions the selection is drawn from
Candidates == IF Passing # {} THEN Passing ELSE DOMAIN rk.topics

\* C18: on a non-empty topic list the ranking returns exactly
\* min(len(topicsToRank), max(1, maxTopics)) topics whatever maxTopics is
\* configured (a missing one standing for the default), and never none.
C18_RankingCount ==
  (Ranked /\ Len(rk.topics) > 0) =>
    /\ Len(rk.out) >= 1
    /\ Len(rk.out) <= Cardinality(Candidates)
    /\ MaxTopicsOf(rk.cfg, rk.site).t = "num"
         => Len(rk.out) = Min(Cardinality(Candidates),
                              Max(1, MaxTopicsOf(rk.cfg, rk.site).n))

\* the names of the selected topics, in order
SelectedNames == [k \in DOMAIN rk.out |-> rk.out[k].name]

\* the spec's example: thresholds 6/6, maxTopics 2, topics (8,7), (5,9), (7,6)
ExampleAsked ==
  /\ SelectedNames \in Seq({"a", "b", "c", "d", "e"})
  /\ [k \in DOMAIN rk.topics |-> rk.topics[k].name] = <<"a", "b", "c">>
  /\ rk.cfg = [minNoveltyScore |-> Num(6), minImpactScore |-> Num(6), maxTopics |-> Num(2)]

\* C19: if some topic meets both thresholds, every selected topic meets
\* both; only if none does is the selection drawn from the whole list.  The
\* spec's example selects its first and third topic, in that order.
C19_ThresholdFilter ==
  Ranked =>
    /\ \A k \in DOMAIN rk.out :
         /\ rk.from[k] \in Candidates
         /\ rk.out[k] = rk.topics[rk.from[k]]
    /\ Passing # {} => \A k \in DOMAIN rk.out : rk.from[k] \in Passing
    /\ ExampleAsked
         => /\ SelectedNames = <<"a", "c">>
            /\ ScoreAt(rk.from[1]) = 15
            /\ ScoreAt(rk.from[2]) = 13

\* the spec's example has been ranked: the first and the third topic
C19_Witness ==
  /\ Ranked
  /\ ExampleAsked
  /\ rk.from = <<1, 3>>
  /\ SelectedNames = <<"a", "c">>

\* the candidates by descending score, equal scores by input position,
\* picked one by one
RECURSIVE StableOrder(_)
StableOrder(positions) ==
  IF positions = {} THEN <<>>
  ELSE LET best == CHOOSE i \in positions :
                     \A j \in positions :
                       \/ ScoreAt(i) > ScoreAt(j)
                       \/ ScoreAt(i) = ScoreAt(j) /\ i <= j
       IN <<best>> \o StableOrder(positions \ {best})

\* C20: the selected topics are in descending order of score, topics of
\* equal score in their input order, and they are the first ones of the
\* candidates so ordered; so the output is a function of the input alone.
C20_StableDescendingPrefix ==
  Ranked =>
    /\ \A k \in DOMAIN rk.from :
         k > 1 => \/ ScoreAt(rk.from[k - 1]) > ScoreAt(rk.from[k])
                  \/ /\ ScoreAt(rk.from[k - 1]) = ScoreAt(rk.from[k])
                     /\ rk.from[k - 1] < rk.from[k]
    /\ rk.from = SubSeq(StableOrder(Candidates), 1, Len(rk.from))
    /\ \A k \in DOMAIN rk.out : rk.out[k] = rk.topics[rk.from[k]]

\* three topics of scores 14, 15, 14 have been ranked: the two of score 14
\* come out in their input order, behind the one of score 15
C20_Witness ==
  /\ Ranked
  /\ Len(rk.topics) = 3
  /\ [k \in DOMAIN rk.topics |-> rk.topics[k].name] = <<"d", "a", "b">>
  /\ rk.from = <<2, 1, 3>>
  /\ [k \in DOMAIN rk.out |-> rk.out[k].name] = <<"a", "d", "b">>

\* the step names a pipeline declares
DeclaredSteps(kind) == {StepsOf(kind)[k].step : k \in DOMAIN StepsOf(kind)}

\* the step names the executor has announced so far
AnnouncedSteps == {wf.announced[k].step : k \in DOMAIN wf.announced}

\* the step names recorded on the run's task
RecordedSteps == {tasks[Id].steps[k].step : k \in DOMAIN tasks[Id].steps}

\* the collaborator that does each step's work
StepOfCall ==
  [loadConfig |-> "loadConfig", fetchRSSFeeds |-> "fetchRSS", saveArticle |-> "store",
   executeStrategy |-> "analyze", generateReport |-> "report", getArticleStats |-> "report"]

\* no cancelTask reached the run's task
NeverCancelled == emitCount[Id]["taskCancelled"] = 0

\* C21: each step is announced before its work begins, and no declared
\* step is skipped: at the end of a run whose task did not fail (and was not
\* cancelled) the task records every step name its pipeline declares,
\* whatever the number of articles fetched or stored, zero included.
C21_StepsIndependentOfVolume ==
  pc # "idle" =>
    /\ \A c \in DOMAIN StepOfCall : c \in wf.called => StepOfCall[c] \in AnnouncedSteps
    /\ (pc = "done" /\ tasks[Id].status = COMPLETED /\ NeverCancelled)
         => RecordedSteps = DeclaredSteps(wf.kind)

\* the percentages the executor has announced so far, in order
AnnouncedPercents == [k \in DOMAIN wf.announced |-> wf.announced[k].p]

\* the percentages each pipeline is to issue on a run that has work to do
ExpectedPercents(kind) ==
  CASE kind = "full" -> <<10, 25, 50, 70, 90, 95, 100>>
    [] kind = "fetch" -> <<15, 45, 75, 90, 95, 100>>
    [] kind = "analyze" -> <<10, 50, 90, 100>>

\* at least one article was fetched (or, without a fetch, selected from the store)
HadWork == IF wf.kind = "analyze" THEN wf.picked > 0 ELSE wf.fetched > 0

IsPrefix(s, t) == Len(s) <= Len(t) /\ s = SubSeq(t, 1, Len(s))

\* C22: on a run with at least one article the percentages are issued in the
\* pipeline's declared order, and once the run has ended without a fatal
\* error they are exactly 10,25,50,70,90,95,100 (full), 15,45,75,90,95,100
\* (fetch-only) or 10,50,90,100 (analyze-only); the fetch-only pipeline has
\* issued its 95 before it saves the report.
C22_PercentSequences ==
  (pc # "idle" /\ HadWork) =>
    /\ IsPrefix(AnnouncedPercents, ExpectedPercents(wf.kind))
    /\ (pc = "done" /\ exec[Id].state = "resolved")
         => AnnouncedPercents = ExpectedPercents(wf.kind)
    /\ (wf.kind = "fetch" /\ "saveReport" \in wf.called)
         => \E k \in DOMAIN wf.announced : wf.announced[k].p = 95

\* C26: while the task of a pipeline run is IN_PROGRESS its progress never
\* decreases, on the early-exit paths and with the HTTP layer's callback
\* reporting each step a second time as well; the percentages a pipeline
\* issues increase strictly from step to step.
C26_ProgressMonotonic ==
  /\ [][(pc # "idle" /\ tasks[Id].status = IN_PROGRESS /\ tasks'[Id].status = IN_PROGRESS)
          => tasks'[Id].progress >= tasks[Id].progress]_vars
  /\ [](\A k \in DOMAIN wf.announced :
          k > 1 => wf.announced[k - 1].p < wf.announced[k].p)
  /\ [](pc # "idle" /\ tasks[Id].status = IN_PROGRESS /\ NeverCancelled
          => tasks[Id].progress = wf.announced[Len(wf.announced)].p)

\* the fetch pipeline, called by the HTTP layer, has announced its storing
\* step and the callback has reported it again: two progress events, one
\* entry per step, progress 75
C26_Witness ==
  /\ wf.kind = "fetch"
  /\ wf.callback
  /\ pc = "store"
  /\ tasks[Id].status = IN_PROGRESS
  /\ tasks[Id].progress = 75
  /\ events = <<Ev("taskProgress", Id), Ev("taskProgress", Id)>>
  /\ Len(tasks[Id].steps) = 3

\* the number of tasks in a status
InStatus(status) == Cardinality({i \in DOMAIN tasks : tasks[i].status = status})

\* C24: getStats returns, for each of the five statuses, the number of
\* tasks now in that status, and the five counts sum to total, the number
\* of tasks in the registry.
C24_StatsCountStatuses ==
  /\ getStats["pending"] = InStatus(PENDING)
  /\ getStats["inProgress"] = InStatus(IN_PROGRESS)
  /\ getStats["completed"] = InStatus(COMPLETED)
  /\ getStats["failed"] = InStatus(FAILED)
  /\ getStats["cancelled"] = InStatus(CANCELLED)
  /\ getStats["total"] = Cardinality(DOMAIN tasks)
  /\ getStats["total"] = getStats["pending"] + getStats["inProgress"] + getStats["completed"]
                           + getStats["failed"] + getStats["cancelled"]

\* C27: every task's progress is within 0..100; updateProgress on an
\* IN_PROGRESS task stores 0 for a percent below 0, 100 for a percent above
\* 100 and the given percent otherwise, and emits one taskProgress event.
C27_ProgressClamped ==
  /\ [](\A id \in DOMAIN tasks : tasks[id].progress \in 0 .. 100)
  /\ [][\A id \in DOMAIN tasks :
          (ret'.op = "updateProgress" /\ ret'.id = id /\ tasks[id].status = IN_PROGRESS)
            => /\ tasks'[id].progress = IF ret'.val.p < 0 THEN 0
                                        ELSE IF ret'.val.p > 100 THEN 100
                                        ELSE ret'.val.p
               /\ events' = <<Ev("taskProgress", id)>>
               /\ tasks'[id].status = IN_PROGRESS]_vars

\* updateProgress has just been called with a negative percent on a running
\* task whose progress was above 0: the progress is 0
C27_Witness ==
  /\ ret.op = "updateProgress"
  /\ ret.val.p < 0
  /\ ret.id \in DOMAIN tasks
  /\ tasks[ret.id].status = IN_PROGRESS
  /\ tasks[ret.id].progress = 0
  /\ tasks[ret.id].steps # <<>>
  /\ events = <<Ev("taskProgress", ret.id)>>

\* the step names of a steps list, in order
StepNames(steps) == [k \in DOMAIN steps |-> steps[k].step]

\* C28: a task's steps never hold two entries of the same step name;
\* updateProgress with a new name appends one entry, with a name already
\* there it sets that entry's message and timestamp where the entry is and
\* changes neither the length nor the order of the list.
C28_StepsUpsert ==
  /\ [](\A id \in DOMAIN tasks :
          \A j, k \in DOMAIN tasks[id].steps :
            tasks[id].steps[j].step = tasks[id].steps[k].step => j = k)
  /\ [][\A id \in DOMAIN tasks :
          (/\ ret'.op = "updateProgress" /\ ret'.id = id
           /\ tasks[id].status = IN_PROGRESS /\ ret'.val.step # "")
            => LET old == tasks[id].steps
                   new == tasks'[id].steps
                   entry == [step |-> ret'.val.step, message |-> ret'.val.message,
                             timestamp |-> now]
               IN IF \E k \in DOMAIN old : old[k].step = ret'.val.step
                  THEN /\ Len(new) = Len(old)
                       /\ StepNames(new) = StepNames(old)
                       /\ \A k \in DOMAIN old :
                            new[k] = IF old[k].step = ret'.val.step THEN entry ELSE old[k]
                  ELSE new = Append(old, entry)]_vars

\* the first of two steps has just been announced again, later and with
\* another message: it is still the first entry, with the new message and time
C28_Witness ==
  /\ ret.op = "updateProgress"
  /\ ret.id \in DOMAIN tasks
  /\ tasks[ret.id].status = IN_PROGRESS
  /\ Len(tasks[ret.id].steps) = 2
  /\ tasks[ret.id].steps[1].step = ret.val.step
  /\ tasks[ret.id].steps[1].message = ret.val.message
  /\ tasks[ret.id].steps[1].timestamp > tasks[ret.id].steps[2].timestamp

\* C29: a task's result is non-null only if its status is COMPLETED, its
\* error is non-null only if its status is FAILED, and no task has both.
\* The pipeline's wrapper settles every run with a value, so the HTTP
\* layer's catch handler has no rejection to record on the task.
C29_ResultAndErrorMatchStatus ==
  /\ \A id \in DOMAIN tasks :
       /\ tasks[id].result # NULL => tasks[id].status = COMPLETED
       /\ tasks[id].error # NULL => tasks[id].status = FAILED
       /\ tasks[id].result = NULL \/ tasks[id].error = NULL
  /\ pc = "done" =>
       /\ wf.result # NULL
       /\ tasks[Id].status = COMPLETED => (tasks[Id].result = wf.result /\ tasks[Id].error = NULL)
       /\ tasks[Id].status = FAILED => (tasks[Id].error # NULL /\ tasks[Id].result = NULL)

\* a run started by the HTTP layer was cancelled and then failed to write
\* its report: the task is FAILED with the error and without a result
C29_Witness ==
  /\ pc = "done"
  /\ wf.callback
  /\ emitCount[Id]["taskCancelled"] = 1
  /\ tasks[Id].status = FAILED
  /\ tasks[Id].error = "saveError"
  /\ tasks[Id].result = NULL
  /\ wf.result = "workflowFailed"

\* what a score field counts as: its value when it is a finite number, 0 when
\* it is missing, null, not a number or not finite
CountsAs(v) == IF v.t = "num" THEN v.n ELSE 0

\* the positions whose topic meets both thresholds with its fields so counted
MeetingBoth ==
  {k \in DOMAIN rk.topics :
     /\ rk.topics[k] # NullTopic
     /\ Geq(CountsAs(rk.topics[k].noveltyScore),
            Number(Coalesce(rk.cfg.minNoveltyScore, Num(0))))
     /\ Geq(CountsAs(rk.topics[k].impactScore),
            Number(Coalesce(rk.cfg.minImpactScore, Num(0))))}

\* C30: the ranking never throws on malformed analysis output: a score
\* field that is missing, null, non-numeric or non-finite, and a topic entry
\* that is null, count as 0 in the score and in the threshold filter, and an
\* analysis whose topics are not a list is ranked as an empty list.
C30_RankingNeverThrows ==
  rk.phase \in {"ranked", "threw"} =>
    /\ rk.phase = "ranked"
    /\ ~rk.analysis.isArray => (rk.topics = <<>> /\ rk.out = <<>>)
    /\ \A k \in DOMAIN rk.out :
         rk.scores[k] = CountsAs(rk.out[k].noveltyScore) + CountsAs(rk.out[k].impactScore)
    /\ MeetingBoth # {} => \A k \in DOMAIN rk.from : rk.from[k] \in MeetingBoth

\* the calls that analyse, generate or report
IncWork == {"executeStrategy", "analyzeArticles", "generateBlog", "saveJekyllPost",
            "generateReport", "saveReport"}

C23_WitnessProceeds ==
  /\ inc.checked /\ inc.phase = "done"
  /\ inc.candidates > 0 /\ inc.processed > 0
  /\ inc.generatedBlogs > 0 /\ "generateBlog" \in inc.called
  /\ reports = <<"json", "html">>

\* a run that has passed filterProcessedArticles with articles left
Filtered == main.phase \in {"analyze", "generate", "image", "save", "mark"}

\* C25: in main(), a guid recorded by markAsProcessed in an earlier run is
\* not among the articles filterProcessedArticles lets through, no article
\* is analysed in two runs that both ran to their end, and guids are
\* recorded only by a run whose post was saved.
C25_ProcessedOnceOnly ==
  /\ Filtered => main.newArticles \cap main.recorded = {}
  /\ \A r1, r2 \in main.completed :
       r1 # r2 => main.analysed[r1] \cap main.analysed[r2] = {}
  /\ main.completed \subseteq main.saved
  /\ main.recorded = UNION {main.analysed[r] : r \in main.completed}

\* the tasks that ended more than maxAge ago
EndedBefore(maxAge) ==
  {i \in DOMAIN tasks : /\ tasks[i].status \in {COMPLETED, FAILED}
                        /\ tasks[i].endTime # NullTime
                        /\ now - tasks[i].endTime > maxAge}

\* C40: cleanupTasks(maxAge) removes exactly the COMPLETED and FAILED tasks
\* whose end time is more than maxAge before now; every other task is kept
\* with every field unchanged, and a task whose executor is still running
\* is kept.
C40_CleanupEvictsOnlyOldEnded ==
  [][ret'.op = "cleanupTasks" =>
       /\ DOMAIN tasks' = (DOMAIN tasks) \ EndedBefore(ret'.val)
       /\ \A i \in DOMAIN tasks' : tasks'[i] = tasks[i]
       /\ \A i \in DOMAIN tasks :
            (tasks[i].status \in {PENDING, IN_PROGRESS, CANCELLED}
               \/ exec[i].state = "running") => i \in DOMAIN tasks']_vars

\* a cleanup has evicted an old ended task and kept another one
C40_Witness ==
  /\ ret.op = "cleanupTasks"
  /\ \E j \in issued : j \notin DOMAIN tasks
  /\ DOMAIN tasks # {}

\* a cleanup has kept a cancelled task whose executor is still running
C40_WitnessRunning ==
  /\ ret.op = "cleanupTasks"
  /\ \E i \in DOMAIN tasks :
       /\ tasks[i].status = CANCELLED /\ exec[i].state = "running"
       /\ now - tasks[i].startTime > ret.val

\* fetchWithRetry for feed j has not settled yet
Requesting(j) == fx.phase = "running" /\ j \in DOMAIN fx.st /\ fx.st[j].stage = "get"

\* the requests made for the feeds of the batch under way: never more than
\* MAX_RETRIES + 1 for one feed, every request before the last one failed,
\* and a call still requesting has seen no success
RequestsBounded ==
  fx.phase = "running" =>
    \A j \in DOMAIN fx.st :
      LET requests == fx.st[j].requests
      IN /\ Len(requests) <= MAX_RETRIES + 1
         /\ \A i \in 1 .. (Len(requests) - 1) : ~requests[i]
         /\ Requesting(j) => \A i \in DOMAIN requests : ~requests[i]
         /\ fx.st[j].stage = "parse" => requests[Len(requests)]

\* the step in which fetchWithRetry for feed j settles: it resolves with the
\* data of the request just made, or rejects with the error of the fourth
SettlesRight(j) ==
  (Requesting(j) /\ ~Requesting(j)') =>
    LET before == fx.st[j].requests
    IN /\ fx'.got.feed = j
       /\ fx'.got.request = Len(before) + 1
       /\ fx'.got.state = "resolved" =>
            /\ fx'.st[j].requests = Append(before, TRUE)
            /\ fx'.got.request <= MAX_RETRIES + 1
       /\ fx'.got.state = "rejected" =>
            /\ Len(before) = MAX_RETRIES
            /\ fx'.got.request = MAX_RETRIES + 1

\* C39: fetchWithRetry makes at most MAX_RETRIES + 1 = 4 requests for one
\* URL; it resolves with the data of the first request that succeeds and
\* requests nothing after it; when all 4 requests fail it rejects with the
\* error of the last one; and every call settles.
C39_RetryBounded ==
  /\ []RequestsBounded
  /\ [][\A j \in 1 .. MaxFeeds : SettlesRight(j)]_vars
  /\ \A j \in 1 .. MaxFeeds : Requesting(j) ~> ~Requesting(j)

\* a call was rejected after four failed requests while another feed's call
\* resolved on a retry
C39_Witness ==
  /\ fx.phase = "running"
  /\ fx.got.state = "rejected" /\ fx.got.request = MAX_RETRIES + 1
  /\ \E j \in DOMAIN fx.st :
       fx.st[j].stage = "parse" /\ Len(fx.st[j].requests) \in 2 .. MAX_RETRIES + 1

\* the positions of an iteration between its selection and its marking
InIteration == pc \in {"analyze", "generate", "image", "save", "mark"}

\* C34: unprocessed articles leave the store only in the marking step, which
\* is entered only by a successful save; an iteration that throws while
\* analysing, generating or saving leaves the store as it was, so the same
\* articles are there for the next selection.
C34_MarkedOnlyAfterSave ==
  /\ [][store' < store => (pc = "mark" /\ store - store' <= wf.picked)]_vars
  /\ [][(pc' = "mark" /\ pc # "mark")
          => (pc = "save" /\ wf'.threw = wf.threw /\ wf'.picked = wf.picked)]_vars
  /\ [][(pc \in {"analyze", "generate", "save"} /\ wf'.threw # wf.threw)
          => /\ store' = store
             /\ wf'.threw = wf.threw \cup {wf.i}
             /\ wf'.blogs = wf.blogs]_vars
  /\ [](InIteration => (wf.picked > 0 /\ store >= wf.picked))

\* the first iteration threw while saving its post, and the second one has
\* selected articles again and is analysing them
C34_Witness ==
  /\ pc = "analyze"
  /\ wf.i = 1
  /\ wf.threw = {0}
  /\ "savePost" \in wf.called
  /\ "markArticleProcessed" \notin wf.called
  /\ wf.picked > 0

\* the run's task has been started and has not ended COMPLETED or FAILED
Unsettled == pc # "idle" /\ Id \in DOMAIN tasks /\ tasks[Id].status \in {IN_PROGRESS, CANCELLED}

\* startTask has ended the task and the pipeline function has returned
Ended ==
  /\ pc = "done"
  /\ tasks[Id].status \in {COMPLETED, FAILED}
  /\ tasks[Id].endTime # NullTime
  /\ exec[Id].state \in {"resolved", "rejected"}
  /\ promise[Id].state \in {"resolved", "rejected"}
  /\ wf.result # NULL

\* C35: when every awaited collaborator call settles, a started task
\* (cancelled meanwhile or not) ends COMPLETED or FAILED, the promise of
\* startTask settles and the pipeline function returns its result; once
\* ended the task is never IN_PROGRESS again.
C35_StartedTaskEnds ==
  /\ Unsettled ~> Ended
  /\ [][Ended => tasks'[Id].status \in {COMPLETED, FAILED}]_vars

\* a run of two iterations, cancelled on its way, has ended
C35_Witness ==
  /\ Ended
  /\ wf.blogCount = 2
  /\ wf.attempts = 2
  /\ emitCount[Id]["taskCancelled"] = 1

\* the operations addressed to one task
Addressed == {"startTask", "updateProgress", "cancelTask", "resolve", "reject"}

\* two tasks are in flight: started, their executors running
TwoInFlight ==
  \E a, b \in DOMAIN tasks :
    a # b /\ exec[a].state = "running" /\ exec[b].state = "running"

\* C32: an operation addressed to task a (startTask, a progress callback, a
\* cancellation, the settlement of its executor) leaves every other task's
\* record, executor and promise as they were; and the status a task is given
\* when its executor settles is COMPLETED with that executor's value or
\* FAILED with its error, whatever the other tasks did.
C32_TasksIsolated ==
  /\ [][\A a \in CallIds, b \in DOMAIN tasks :
          (ret'.op \in Addressed /\ ret'.id = a /\ b # a)
            => /\ b \in DOMAIN tasks'
               /\ tasks'[b] = tasks[b]
               /\ exec'[b] = exec[b]
               /\ promise'[b] = promise[b]]_vars
  /\ [][\A a \in DOMAIN tasks :
          (exec[a].state = "running" /\ exec'[a].state # "running")
            => /\ ret'.id = a
               /\ exec'[a].state = "resolved"
                    => (tasks'[a].status = COMPLETED /\ tasks'[a].result = exec'[a].value)
               /\ exec'[a].state = "rejected"
                    => (tasks'[a].status = FAILED /\ tasks'[a].error = exec'[a].value)]_vars

\* two tasks were in flight together; one has ended COMPLETED, the other FAILED
C32_Witness ==
  \E a, b \in DOMAIN tasks :
    /\ a # b
    /\ tasks[a].status = COMPLETED /\ exec[a].state = "resolved"
    /\ tasks[b].status = FAILED /\ exec[b].state = "rejected"
    /\ tasks[a].startTime <= tasks[b].endTime /\ tasks[b].startTime <= tasks[a].endTime

\* a task was cancelled while another one went on running
C32_WitnessCancel ==
  /\ TwoInFlight
  /\ ret.op = "cancelTask"
  /\ tasks[ret.id].status = CANCELLED
  /\ \E b \in DOMAIN tasks : b # ret.id /\ tasks[b].status = IN_PROGRESS

\* C36: in the step in which the promise of startTask settles the task is
\* COMPLETED if it resolves and FAILED if it rejects, also when cancelTask
\* came while the executor was running; so the wrapper, which finds
\* the task in the registry, never takes the branch for a status that is
\* neither COMPLETED nor FAILED, and takes the FAILED branch only by way of
\* its catch block.
C36_AbnormalBranchUnreachable ==
  /\ [][(Id \in DOMAIN promise /\ promise[Id].state = "pending"
           /\ promise'[Id].state # "pending")
          => /\ promise'[Id].state = "resolved" => tasks'[Id].status = COMPLETED
             /\ promise'[Id].state = "rejected" => tasks'[Id].status = FAILED
             /\ tasks'[Id].status # CANCELLED]_vars
  /\ [](pc = "done" =>
          /\ Id \in DOMAIN tasks
          /\ wf.branch \notin {"abnormal", "error"}
          /\ promise[Id].state = "resolved" <=> wf.branch = "result"
          /\ promise[Id].state = "rejected" <=> (wf.branch = NULL /\ wf.caught = tasks[Id].error))

\* a run cancelled while its executor was running has ended, the wrapper
\* having found the task COMPLETED
C36_Witness ==
  /\ pc = "done"
  /\ emitCount[Id]["taskCancelled"] = 1
  /\ promise[Id].state = "resolved"
  /\ tasks[Id].status = COMPLETED
  /\ wf.branch = "result"
  /\ wf.result = "report"

\* the tasks of a type
TasksOfType(type) == {i \in DOMAIN tasks : tasks[i].type = type}

\* C33: a run of the full, fetch-only or analyze-only pipeline has exactly
\* one task of its type, which is IN_PROGRESS (or CANCELLED) while the run is
\* under way and COMPLETED or FAILED, as the executor ended, once it is over;
\* and a run of the incremental pipeline has one task of its own likewise.
C33_EveryRunTracked ==
  /\ pc # "idle" =>
       /\ TasksOfType(TaskTypeOf(wf.kind)) = {Id}
       /\ pc # "done" => tasks[Id].status \in {IN_PROGRESS, CANCELLED}
       /\ pc = "done" =>
            /\ exec[Id].state = "resolved" => tasks[Id].status = COMPLETED
            /\ exec[Id].state = "rejected" => tasks[Id].status = FAILED
  /\ inc.phase # "idle" =>
       \E id \in DOMAIN tasks :
         /\ inc.phase # "done" => tasks[id].status \in {IN_PROGRESS, CANCELLED}
         /\ inc.phase = "done" => tasks[id].status \in {COMPLETED, FAILED}

\* ---------------------------------------------------------------- C37
\* the call of a wrapper that startTask refused has settled
Refused == wf.again.settled # "pending"

\* C37: none of the five workflow functions ever rejects. A run of
\* executeFullWorkflow, analyzeExistingArticles or executeFetchWorkflow that
\* has ended has resolved; when its executor threw, the result is the
\* failure result and its data is the error the task holds. A call with an
\* unknown task id, or with the id of a task that is not PENDING, resolves
\* with the failure result whose data is startTask's error. An ended
\* executeIncrementalWorkflow or executeCleanupWorkflow has resolved, and if
\* its catch block ran, with createWorkflowResult(false, ..., error).
C37_WorkflowsNeverReject ==
  /\ "rejected" \notin {wf.settled, wf.again.settled, inc.settled, cw.settled}
  /\ pc = "done" <=> wf.settled = "resolved"
  /\ (pc = "done" /\ exec[Id].state = "rejected")
       => /\ tasks[Id].status = FAILED
          /\ wf.result = "workflowFailed"
          /\ wf.caught = tasks[Id].error
          /\ wf.caught = exec[Id].value
  /\ Refused
       => /\ wf.again.result = "workflowFailed"
          /\ wf.again.caught \in {"NotFound", "BadStatus"}
          /\ ~Has(wf.again.taskId) => wf.again.caught = "NotFound"
          /\ wf.again.caught = "BadStatus"
               => (Has(wf.again.taskId) /\ tasks[wf.again.taskId].status # PENDING)
  /\ inc.phase = "done" <=> inc.settled = "resolved"
  /\ (inc.phase = "done" /\ inc.caught # NULL)
       => inc.result = createWorkflowResult(FALSE, "incrementalFailed", inc.caught)
  /\ cw.phase = "done" <=> cw.settled = "resolved"
  /\ (cw.phase = "done" /\ cw.caught # NULL)
       => cw.result = createWorkflowResult(FALSE, "cleanupFailed", cw.caught)

\* a run whose executor threw has resolved with the failure result, and a
\* second call with the id of that run's task was refused and resolved too
C37_Witness ==
  /\ pc = "done" /\ exec[Id].state = "rejected" /\ wf.settled = "resolved"
  /\ wf.caught = "saveError"
  /\ Refused /\ wf.again.taskId = Id /\ wf.again.caught = "BadStatus"

\* a call with an id the registry never issued
C37_WitnessUnknown ==
  /\ Refused /\ wf.again.taskId \notin issued /\ wf.again.caught = "NotFound"
  /\ wf.again.settled = "resolved"

\* the catch blocks of the two functions without a task
C37_WitnessIncremental == inc.phase = "done" /\ inc.caught = "saveError" /\ ~inc.result.success

C37_WitnessCleanup == cw.phase = "done" /\ cw.caught = "statsError" /\ ~cw.result.success

\* ---------------------------------------------------------------- C38
\* no article is among the inputs of two blogs of generatedBlogs
InputsDisjoint ==
  \A a, b \in DOMAIN es.generatedBlogs :
    a # b => es.generatedBlogs[a].articles \cap es.generatedBlogs[b].articles = {}

\* with automatic selection the blogs of one run have disjoint inputs: every
\* input of a pushed blog was marked processed before the next selection
AutomaticInputsDisjoint == es.selectedArticles = {} => InputsDisjoint

\* C38: within one executeStrategy run no article is an input of more than
\* one blog of generatedBlogs, whether the articles are selected from the
\* unprocessed store or named by the caller in selectedArticles
C38_NoArticleUsedTwice == InputsDisjoint

\* two blogs generated by automatic selection in one run
C38_WitnessAutomatic == es.selectedArticles = {} /\ Len(es.generatedBlogs) = 2

\* ---------------------------------------------------------------- C31
\* run r has written a report file
Wrote(r) == rp.run[r].names # {}

\* C31: a saved report is two files, report-<timestamp>.json and
\* report-<timestamp>.html, with the same timestamp; two different runs never
\* write under the same timestamp, so that no run's report file is
\* overwritten by another run, however their saveReport calls interleave
C31_ReportsNeverCollide ==
  /\ \A r \in Pipelines :
       rp.run[r].phase = "done"
         => rp.run[r].names = {ReportName(rp.run[r].timestamp, "json"),
                               ReportName(rp.run[r].timestamp, "html")}
  /\ \A r1, r2 \in Pipelines :
       (r1 # r2 /\ Wrote(r1) /\ Wrote(r2)) => rp.run[r1].names \cap rp.run[r2].names = {}
  /\ rp.lost = {}

\* each report keeps its two files under one timestamp: a run that has
\* written both files wrote them under the timestamp it took
SameIdentifier ==
  \A r \in Pipelines :
    rp.run[r].phase = "done"
      => rp.run[r].names = {ReportName(rp.run[r].timestamp, "json"),
                            ReportName(rp.run[r].timestamp, "html")}

\* two runs that saved their reports a millisecond apart
C31_WitnessApart ==
  /\ \A r \in {1, 2} : rp.run[r].phase = "done"
  /\ rp.run[1].timestamp # rp.run[2].timestamp
  /\ rp.lost = {}

====
